---- MODULE Spec2Model ----
(***************************************************************************)
(* LQL (SpecDrivenDesign/lql): lexer, bytecode codec, parser and evaluator. *)
(* Source text and bytecode are sequences of bytes (0..255); a token        *)
(* literal is the byte sequence the lexer cut out of the input.             *)
(***************************************************************************)
EXTENDS Integers, Sequences, FiniteSets, TLC

VARIABLES
  src,         \* the expression text handed to a command
  ctx,         \* the context map read from stdin
  res,         \* the outcome of exec -expr on src
  plainRes,    \* the outcome of exec -expr on src written without '?'
  bc,          \* the outcome of compile: bytes written to the file, or the error
  res2,        \* the outcome of exec -in on the compiled file
  signedData,  \* the outcome of compile -signed, with the key used
  tampered,    \* the 1-based offset of the byte changed in the signed file, 0 if none
  readRes,     \* the outcome of NewByteCodeReaderFromSignedData on the signed file
  heap,        \* the backing store of the slices and maps alive in an evaluation
  regs,        \* the values an evaluation has returned so far
  shared,      \* the AST and the Environment that concurrent evaluations share
  evals,       \* the evaluations running on the shared AST, each with its own context
  suite,       \* a run of the test runner: its cases, its place in them, its results
  lex,         \* a lexer under repeated calls of NextToken, and what the calls returned
  division     \* a division of two 64-bit integers: the operands and what it returned

vars ==
  <<src, ctx, res, plainRes, bc, res2, signedData, tampered, readRes, heap, regs,
    shared, evals, suite, lex, division>>

(***************************************************************************)
(* Bytes and characters                                                     *)
(***************************************************************************)
AsciiTable ==
  << " ", "!", "\"", "#", "$", "%", "&", "'", "(", ")", "*", "+", ",", "-", ".", "/",
     "0", "1", "2", "3", "4", "5", "6", "7", "8", "9", ":", ";", "<", "=", ">", "?",
     "@", "A", "B", "C", "D", "E", "F", "G", "H", "I", "J", "K", "L", "M", "N", "O",
     "P", "Q", "R", "S", "T", "U", "V", "W", "X", "Y", "Z", "[", "\\", "]", "^", "_",
     "BACKTICK", "a", "b", "c", "d", "e", "f", "g", "h", "i", "j", "k", "l", "m", "n", "o",
     "p", "q", "r", "s", "t", "u", "v", "w", "x", "y", "z", "{", "|", "}", "~" >>

AsciiChars == {AsciiTable[i] : i \in 1..Len(AsciiTable)}

\* The byte of a printable ASCII character.
Ord == [c \in AsciiChars |-> 31 + (CHOOSE i \in 1..Len(AsciiTable) : AsciiTable[i] = c)]

\* The bytes of a word given as a tuple of characters.
W(t) == [i \in 1..Len(t) |-> Ord[t[i]]]

\* Go's string(byte): the UTF-8 encoding of the rune with that value.
StringOfByte(b) == IF b < 128 THEN <<b>> ELSE <<192 + (b \div 64), 128 + (b % 64)>>

isLetter(b) ==
  \/ Ord["a"] <= b /\ b <= Ord["z"]
  \/ Ord["A"] <= b /\ b <= Ord["Z"]
  \/ b = Ord["_"]

isDigit(b) == Ord["0"] <= b /\ b <= Ord["9"]

isHexDigit(b) ==
  \/ Ord["0"] <= b /\ b <= Ord["9"]
  \/ Ord["a"] <= b /\ b <= Ord["f"]
  \/ Ord["A"] <= b /\ b <= Ord["F"]

(***************************************************************************)
(* Tokens                                                                   *)
(***************************************************************************)
TokenEof == 0
TokenIllegal == 1
TokenIdent == 2
TokenNumber == 3
TokenString == 4
TokenBool == 5
TokenNull == 6
TokenPlus == 7
TokenMinus == 8
TokenMultiply == 9
TokenDivide == 10
TokenLt == 11
TokenGt == 12
TokenLte == 13
TokenGte == 14
TokenEq == 15
TokenNeq == 16
TokenAnd == 17
TokenOr == 18
TokenNot == 19
TokenLparen == 20
TokenRparen == 21
TokenLeftBracket == 22
TokenRightBracket == 23
TokenLeftCurly == 24
TokenRightCurly == 25
TokenComma == 26
TokenColon == 27
TokenDot == 28
TokenQuestion == 29
TokenQuestionDot == 30
TokenQuestionBracket == 31
TokenDollar == 32

HeaderMagic == W(<<"S", "T", "O", "K">>)

\* TokenTypeToByte: every token type but TokenQuestion has a byte code.
TokenTypeToByte ==
  [tt \in (0..32) \ {TokenQuestion} |-> tt]

\* The reverse mapping, built by ranging over TokenTypeToByte.
ByteToTokenType ==
  [b \in {TokenTypeToByte[tt] : tt \in DOMAIN TokenTypeToByte} |->
     CHOOSE tt \in DOMAIN TokenTypeToByte : TokenTypeToByte[tt] = b]

FixedTokenLiterals ==
  (TokenPlus :> W(<<"+">>)) @@ (TokenMinus :> W(<<"-">>)) @@
  (TokenMultiply :> W(<<"*">>)) @@ (TokenDivide :> W(<<"/">>)) @@
  (TokenLt :> W(<<"<">>)) @@ (TokenGt :> W(<<">">>)) @@
  (TokenLte :> W(<<"<", "=">>)) @@ (TokenGte :> W(<<">", "=">>)) @@
  (TokenEq :> W(<<"=", "=">>)) @@ (TokenNeq :> W(<<"!", "=">>)) @@
  (TokenAnd :> W(<<"A", "N", "D">>)) @@ (TokenOr :> W(<<"O", "R">>)) @@
  (TokenNot :> W(<<"N", "O", "T">>)) @@
  (TokenLparen :> W(<<"(">>)) @@ (TokenRparen :> W(<<")">>)) @@
  (TokenLeftBracket :> W(<<"[">>)) @@ (TokenRightBracket :> W(<<"]">>)) @@
  (TokenLeftCurly :> W(<<"{">>)) @@ (TokenRightCurly :> W(<<"}">>)) @@
  (TokenComma :> W(<<",">>)) @@ (TokenColon :> W(<<":">>)) @@
  (TokenDot :> W(<<".">>)) @@
  (TokenQuestionDot :> W(<<"?", ".">>)) @@
  (TokenQuestionBracket :> W(<<"?", "[">>)) @@
  (TokenDollar :> W(<<"$">>))

Token(type, lit, line, col) == [type |-> type, lit |-> lit, line |-> line, col |-> col]

(***************************************************************************)
(* Errors: a kind, a message, the formatted argument of the message and a   *)
(* position.  Kind "nil" is Go's nil error; kind "error" is a plain         *)
(* fmt.Errorf value, which carries no position.                             *)
(***************************************************************************)
Err(kind, msg, arg, line, col) ==
  [kind |-> kind, msg |-> msg, arg |-> arg, line |-> line, col |-> col]

NoErr == Err("nil", "", <<>>, 0, 0)

NewLexicalError(msg, arg, line, col) == Err("LexicalError", msg, arg, line, col)
NewSyntaxError(msg, arg, line, col) == Err("SyntaxError", msg, arg, line, col)
NewSemanticError(msg, arg, line, col) == Err("SemanticError", msg, arg, line, col)
NewTypeError(msg, arg, line, col) == Err("TypeError", msg, arg, line, col)
NewReferenceError(msg, arg, line, col) == Err("ReferenceError", msg, arg, line, col)
NewDivideByZeroError(msg, arg, line, col) == Err("DivideByZeroError", msg, arg, line, col)
NewArrayOutOfBoundsError(msg, arg, line, col) == Err("ArrayOutOfBoundsError", msg, arg, line, col)
NewUnknownOperatorError(msg, arg, line, col) == Err("UnknownOperatorError", msg, arg, line, col)
NewUnknownIdentifierError(msg, arg, line, col) == Err("UnknownIdentifierError", msg, arg, line, col)
NewFunctionCallError(msg, arg, line, col) == Err("FunctionCallError", msg, arg, line, col)
NewParameterError(msg, arg, line, col) == Err("ParameterError", msg, arg, line, col)
Errorf(msg, arg) == Err("error", msg, arg, 0, 0)

(***************************************************************************)
(* Lexer.  Positions are Go's 0-based indices: input[i] in Go is            *)
(* input[i + 1] here.  ch = 0 is the NUL byte readChar yields at the end.   *)
(***************************************************************************)
LF == 10

readChar(l) ==
  LET c == IF l.readPosition >= Len(l.input) THEN 0 ELSE l.input[l.readPosition + 1]
  IN [l EXCEPT !.ch = c,
               !.position = l.readPosition,
               !.readPosition = l.readPosition + 1,
               !.line = IF c = LF THEN l.line + 1 ELSE l.line,
               !.column = IF c = LF THEN 0 ELSE l.column + 1]

NewLexer(input) ==
  readChar([input |-> input, position |-> 0, readPosition |-> 0, ch |-> 0,
            line |-> 1, column |-> 0])

peekChar(l) ==
  IF l.readPosition >= Len(l.input) THEN 0 ELSE l.input[l.readPosition + 1]

isSpace(b) == b = 32 \/ b = 9 \/ b = LF \/ b = 13

RECURSIVE skipSpaces(_)
skipSpaces(l) == IF isSpace(l.ch) THEN skipSpaces(readChar(l)) ELSE l

RECURSIVE skipToLineEnd(_)
skipToLineEnd(l) ==
  IF l.ch # LF /\ l.ch # 0 THEN skipToLineEnd(readChar(l)) ELSE l

RECURSIVE skipComments(_)
skipComments(l) ==
  IF l.ch = Ord["#"]
    THEN skipComments(skipSpaces(readChar(skipToLineEnd(l))))
    ELSE l

skipWhitespace(l) == skipComments(skipSpaces(l))

RECURSIVE readIdentChars(_)
readIdentChars(l) ==
  IF isLetter(l.ch) \/ isDigit(l.ch) \/ l.ch = Ord["-"]
    THEN readIdentChars(readChar(l))
    ELSE l

\* readIdentifier: the lexer after the scan and the bytes input[position:l.position].
readIdentifier(l) ==
  LET slice(l2) == [l |-> l2, lit |-> SubSeq(l.input, l.position + 1, l2.position)]
  IN slice(readIdentChars(l))

lookupIdent(ident) ==
  CASE ident = W(<<"t", "r", "u", "e">>) -> TokenBool
    [] ident = W(<<"f", "a", "l", "s", "e">>) -> TokenBool
    [] ident = W(<<"n", "u", "l", "l">>) -> TokenNull
    [] ident = W(<<"A", "N", "D">>) -> TokenAnd
    [] ident = W(<<"O", "R">>) -> TokenOr
    [] ident = W(<<"N", "O", "T">>) -> TokenNot
    [] OTHER -> TokenIdent

RECURSIVE readDigits(_)
readDigits(l) == IF isDigit(l.ch) THEN readDigits(readChar(l)) ELSE l

LexOut(tok, err, l) == [tok |-> tok, err |-> err, l |-> l]

readNumber(l) ==
  LET start == l.position
      startLine == l.line
      startColumn == l.column
      lit(x) == SubSeq(l.input, start + 1, x.position)
      illegal(x) == Token(TokenIllegal, lit(x), startLine, startColumn)
      signed == l.ch = Ord["-"] \/ l.ch = Ord["+"]
      number(x) == LexOut(Token(TokenNumber, lit(x), startLine, startColumn), NoErr, x)
      \* x: the lexer after the exponent's sign.
      exponentDigits(x) ==
        IF ~isDigit(x.ch)
          THEN LexOut(illegal(x),
                      NewLexicalError("Invalid number literal: missing digits in exponent",
                                      <<>>, startLine, startColumn), x)
          ELSE number(readDigits(x))
      \* x: the lexer after the 'e'.
      exponentSign(x) ==
        exponentDigits(IF x.ch = Ord["-"] \/ x.ch = Ord["+"] THEN readChar(x) ELSE x)
      \* x: the lexer after the integer part and the fraction.
      exponent(x) ==
        IF x.ch = Ord["e"] \/ x.ch = Ord["E"] THEN exponentSign(readChar(x)) ELSE number(x)
      \* x: the lexer after the '.'.
      fractionDigits(x) ==
        IF ~isDigit(x.ch)
          THEN LexOut(illegal(x),
                      NewLexicalError("Invalid number literal: missing digits after decimal point",
                                      <<>>, startLine, x.position), x)
          ELSE exponent(readDigits(x))
      \* x: the lexer after the integer part.
      fraction(x) == IF x.ch = Ord["."] THEN fractionDigits(readChar(x)) ELSE exponent(x)
      \* x: the lexer after the sign.
      integer(x) ==
        IF signed /\ ~isDigit(x.ch)
          THEN LexOut(illegal(x),
                      NewLexicalError("Invalid number literal: '%c' not followed by a digit",
                                      <<l.ch>>, startLine, startColumn), x)
          ELSE fraction(readDigits(x))
  IN integer(IF signed THEN readChar(l) ELSE l)

HexVal(b) ==
  IF isDigit(b) THEN b - Ord["0"]
  ELSE IF Ord["a"] <= b /\ b <= Ord["f"] THEN b - Ord["a"] + 10
  ELSE b - Ord["A"] + 10

\* strings.Builder.WriteRune: the UTF-8 encoding of a code point below 0x10000;
\* a surrogate half is written as U+FFFD.
WriteRune(code) ==
  IF code < 128 THEN <<code>>
  ELSE IF code < 2048 THEN <<192 + (code \div 64), 128 + (code % 64)>>
  ELSE IF code >= 55296 /\ code <= 57343 THEN <<239, 191, 189>>
  ELSE <<224 + (code \div 4096), 128 + ((code \div 64) % 64), 128 + (code % 64)>>

\* The four readChar calls of a \u escape: the hex digits read so far, or the
\* lexer at the first byte that is no hex digit.
RECURSIVE readHex(_, _, _)
readHex(l, n, code) ==
  IF n = 0 THEN [ok |-> TRUE, l |-> l, code |-> code]
  ELSE LET digit(l1) ==
             IF ~isHexDigit(l1.ch)
               THEN [ok |-> FALSE, l |-> l1, code |-> 0]
               ELSE readHex(l1, n - 1, code * 16 + HexVal(l1.ch))
       IN digit(readChar(l))

StrOut(str, err, l) == [str |-> str, err |-> err, l |-> l]

\* The loop of readString, entered after the opening quote was skipped.
RECURSIVE readStringLoop(_, _, _, _, _, _)
readStringLoop(l, quote, sb, escaped, startLine, startColumn) ==
  IF l.ch = 0
    THEN StrOut(<<>>, NewLexicalError("Unclosed string literal", <<>>, startLine, startColumn), l)
  ELSE IF escaped
    THEN IF l.ch = Ord["u"]
           THEN LET unicode(h) ==
                      IF ~h.ok
                        THEN StrOut(<<>>, NewLexicalError("Invalid unicode escape sequence", <<>>,
                                                          h.l.line, h.l.column), h.l)
                        ELSE readStringLoop(readChar(h.l), quote, sb \o WriteRune(h.code), FALSE,
                                            startLine, startColumn)
                IN unicode(readHex(l, 4, 0))
         ELSE IF l.ch \in {Ord["n"], Ord["r"], Ord["t"], Ord["\\"], Ord["\""], Ord["'"]}
           THEN readStringLoop(readChar(l), quote,
                               Append(sb, CASE l.ch = Ord["n"] -> LF
                                            [] l.ch = Ord["r"] -> 13
                                            [] l.ch = Ord["t"] -> 9
                                            [] OTHER -> l.ch),
                               FALSE, startLine, startColumn)
         ELSE StrOut(<<>>, NewLexicalError("Invalid escape sequence: \\", StringOfByte(l.ch),
                                           l.line, l.column), l)
  ELSE IF l.ch = Ord["\\"]
    THEN readStringLoop(readChar(l), quote, sb, TRUE, startLine, startColumn)
  ELSE IF l.ch = quote
    THEN StrOut(sb, NoErr, readChar(l))
  ELSE readStringLoop(readChar(l), quote, Append(sb, l.ch), FALSE, startLine, startColumn)

readString(l, quote) == readStringLoop(readChar(l), quote, <<>>, FALSE, l.line, l.column)

\* The token NextToken builds once it knows the type: one or two bytes of
\* input taken as the literal.
tokenOf(l, type, lit, width) ==
  LexOut(Token(type, lit, l.line, l.column), NoErr,
         IF width = 2 THEN readChar(readChar(l)) ELSE readChar(l))

unexpectedCharacter(l) ==
  LexOut(Token(TokenIllegal, StringOfByte(l.ch), l.line, l.column),
         NewLexicalError("Unexpected character: ", StringOfByte(l.ch), l.line, l.column),
         readChar(l))

stringToken(l, s) ==
  IF s.err # NoErr
    THEN LexOut(Token(TokenIllegal, <<>>, l.line, l.column), s.err, s.l)
    ELSE LexOut(Token(TokenString, s.str, l.line, l.column), NoErr, s.l)

identToken(l, r) == LexOut(Token(lookupIdent(r.lit), r.lit, l.line, l.column), NoErr, r.l)

\* The switch of NextToken; l is the lexer after skipWhitespace, c is l.ch and
\* n is peekChar(l).
switchToken(l, c, n) ==
  CASE c = Ord["+"] -> tokenOf(l, TokenPlus, <<c>>, 1)
    [] c = Ord["-"] -> tokenOf(l, TokenMinus, <<c>>, 1)
    [] c = Ord["*"] -> tokenOf(l, TokenMultiply, <<c>>, 1)
    [] c = Ord["/"] -> tokenOf(l, TokenDivide, <<c>>, 1)
    [] c = Ord["<"] /\ n = Ord["="] -> tokenOf(l, TokenLte, W(<<"<", "=">>), 2)
    [] c = Ord["<"] /\ n # Ord["="] -> tokenOf(l, TokenLt, <<c>>, 1)
    [] c = Ord[">"] /\ n = Ord["="] -> tokenOf(l, TokenGte, W(<<">", "=">>), 2)
    [] c = Ord[">"] /\ n # Ord["="] -> tokenOf(l, TokenGt, <<c>>, 1)
    [] c = Ord["="] /\ n = Ord["="] -> tokenOf(l, TokenEq, W(<<"=", "=">>), 2)
    [] c = Ord["="] /\ n # Ord["="] -> tokenOf(l, TokenIllegal, <<c>>, 1)
    [] c = Ord["!"] /\ n = Ord["="] -> tokenOf(l, TokenNeq, W(<<"!", "=">>), 2)
    [] c = Ord["!"] /\ n # Ord["="] -> tokenOf(l, TokenNot, <<c>>, 1)
    [] c = Ord["&"] /\ n = Ord["&"] -> tokenOf(l, TokenAnd, <<c, n>>, 2)
    [] c = Ord["&"] /\ n # Ord["&"] -> unexpectedCharacter(l)
    [] c = Ord["|"] /\ n = Ord["|"] -> tokenOf(l, TokenOr, <<c, n>>, 2)
    [] c = Ord["|"] /\ n # Ord["|"] -> unexpectedCharacter(l)
    [] c = Ord["("] -> tokenOf(l, TokenLparen, <<c>>, 1)
    [] c = Ord[")"] -> tokenOf(l, TokenRparen, <<c>>, 1)
    [] c = Ord["["] -> tokenOf(l, TokenLeftBracket, <<c>>, 1)
    [] c = Ord["]"] -> tokenOf(l, TokenRightBracket, <<c>>, 1)
    [] c = Ord["{"] -> tokenOf(l, TokenLeftCurly, <<c>>, 1)
    [] c = Ord["}"] -> tokenOf(l, TokenRightCurly, <<c>>, 1)
    [] c = Ord[","] -> tokenOf(l, TokenComma, <<c>>, 1)
    [] c = Ord[":"] -> tokenOf(l, TokenColon, <<c>>, 1)
    [] c = Ord["."] -> tokenOf(l, TokenDot, <<c>>, 1)
    [] c = Ord["?"] /\ n = Ord["."] -> tokenOf(l, TokenQuestionDot, W(<<"?", ".">>), 2)
    [] c = Ord["?"] /\ n = Ord["["] -> tokenOf(l, TokenQuestionBracket, W(<<"?", "[">>), 2)
    [] c = Ord["?"] /\ n # Ord["."] /\ n # Ord["["] -> tokenOf(l, TokenQuestion, <<c>>, 1)
    [] c = Ord["$"] -> tokenOf(l, TokenDollar, <<c>>, 1)
    [] c = Ord["\""] \/ c = Ord["'"] -> stringToken(l, readString(l, c))
    [] c = 0 -> LexOut(Token(TokenEof, <<>>, l.line, l.column), NoErr, readChar(l))
    [] OTHER ->
         IF isLetter(c) THEN identToken(l, readIdentifier(l))
         ELSE IF isDigit(c) THEN readNumber(l)
         ELSE unexpectedCharacter(l)

nextTokenAt(l) == switchToken(l, l.ch, peekChar(l))

\* NextToken: the token, the error and the lexer after the call.
NextToken(l0) == nextTokenAt(skipWhitespace(l0))

(***************************************************************************)
(* Bytecode codec                                                           *)
(***************************************************************************)
MaxLiteralLen == 255

BytesOut(bytes, err) == [bytes |-> bytes, err |-> err]

\* The record ExportTokens writes for one token: the type code, then the
\* length-prefixed literal unless the literal is the type's fixed literal.
TokenRecord(tok) ==
  IF tok.type \in DOMAIN FixedTokenLiterals /\ tok.lit = FixedTokenLiterals[tok.type]
    THEN <<TokenTypeToByte[tok.type]>>
    ELSE <<TokenTypeToByte[tok.type], Len(tok.lit)>> \o tok.lit

RECURSIVE ExportLoop(_, _)
ExportLoop(l, buf) ==
  LET fixed(tok) ==
        tok.type \in DOMAIN FixedTokenLiterals /\ tok.lit = FixedTokenLiterals[tok.type]
      write(n) ==
        IF n.err # NoErr THEN BytesOut(<<>>, n.err)
        ELSE IF n.tok.type \notin DOMAIN TokenTypeToByte
          THEN BytesOut(<<>>, Errorf("unknown token type: %v", <<n.tok.type>>))
        ELSE IF ~fixed(n.tok) /\ Len(n.tok.lit) > MaxLiteralLen
          THEN BytesOut(<<>>, Errorf("literal too long", <<>>))
        ELSE IF n.tok.type = TokenEof
          THEN BytesOut(buf \o TokenRecord(n.tok), NoErr)
        ELSE ExportLoop(n.l, buf \o TokenRecord(n.tok))
  IN write(NextToken(l))

ExportTokens(l) == ExportLoop(l, <<>>)

NewByteCodeReader(data) == [data |-> data, pos |-> 0]

\* ByteCodeReader.NextToken: the token, the error and the reader after the call.
ReaderNextToken(b) ==
  IF b.pos >= Len(b.data)
    THEN LexOut(Token(TokenEof, <<>>, 0, 0), NoErr, b)
  ELSE
    LET tokenTypeByte == b.data[b.pos + 1]
        b1 == [b EXCEPT !.pos = b.pos + 1]
    IN IF tokenTypeByte \notin DOMAIN ByteToTokenType
         THEN LexOut(Token(TokenIllegal, <<>>, 0, 0),
                     Errorf("unknown token type code: %v", <<tokenTypeByte>>), b1)
       ELSE
         LET tokenType == ByteToTokenType[tokenTypeByte]
         IN IF tokenType \in DOMAIN FixedTokenLiterals
              THEN LexOut(Token(tokenType, FixedTokenLiterals[tokenType], -1, -1), NoErr, b1)
            ELSE IF b1.pos + 1 > Len(b1.data)
              THEN LexOut(Token(TokenIllegal, <<>>, 0, 0),
                          Errorf("unexpected end of data reading literal length", <<>>), b1)
            ELSE
              LET length == b1.data[b1.pos + 1]
                  b2 == [b1 EXCEPT !.pos = b1.pos + 1]
              IN IF b2.pos + length > Len(b2.data)
                   THEN LexOut(Token(TokenIllegal, <<>>, 0, 0),
                               Errorf("unexpected end of data reading literal", <<>>), b2)
                   ELSE LexOut(Token(tokenType,
                                     SubSeq(b2.data, b2.pos + 1, b2.pos + length), -1, -1),
                               NoErr, [b2 EXCEPT !.pos = b2.pos + length])

(***************************************************************************)
(* TokenStream: the parser reads from a Lexer or from a ByteCodeReader.     *)
(* A stream is the sequence of results its NextToken yields, call after     *)
(* call, and the number of calls made so far.  The parser makes no call     *)
(* after an error, and at most one after the end-of-input token became its  *)
(* peek token, so the sequence ends with an error or with the result that   *)
(* follows the first end-of-input token.                                    *)
(***************************************************************************)
\* The results of Lexer.NextToken from lexer l on; eofs counts the
\* end-of-input tokens already yielded.
RECURSIVE LexerTokens(_, _)
LexerTokens(l, eofs) ==
  LET results(n) ==
        IF n.err # NoErr \/ (n.tok.type = TokenEof /\ eofs = 1) THEN <<n>>
        ELSE <<n>> \o LexerTokens(n.l, IF n.tok.type = TokenEof THEN eofs + 1 ELSE eofs)
  IN results(NextToken(l))

\* The results of ByteCodeReader.NextToken from reader b on; past the end of
\* the data every call yields the same end-of-input token.
RECURSIVE ReaderTokens(_)
ReaderTokens(b) ==
  LET results(n) ==
        IF n.err # NoErr \/ b.pos >= Len(b.data) THEN <<n>> ELSE <<n>> \o ReaderTokens(n.l)
  IN results(ReaderNextToken(b))

LexerStream(l) == [k |-> "lexer", results |-> LexerTokens(l, 0), calls |-> 0]
ReaderStream(b) == [k |-> "reader", results |-> ReaderTokens(b), calls |-> 0]

\* TokenStream.NextToken: the next result of the stream.
StreamNextToken(ts) ==
  LET result(n) == LexOut(n.tok, n.err, [ts EXCEPT !.calls = ts.calls + 1])
  IN IF ts.calls < Len(ts.results)
       THEN result(ts.results[ts.calls + 1])
       ELSE result(ts.results[Len(ts.results)])

(***************************************************************************)
(* Values.  A float64 is kept on the grid of tenths: FloatVal(f) stands for *)
(* f / FloatScale.                                                          *)
(***************************************************************************)
FloatScale == 10

Null == [t |-> "Null"]
BoolVal(b) == [t |-> "Bool", b |-> b]
IntVal(i) == [t |-> "Int", i |-> i]
FloatVal(f) == [t |-> "Float", f |-> f]
StrVal(s) == [t |-> "Str", s |-> s]
ArrVal(a) == [t |-> "Arr", a |-> a]
ObjVal(o) == [t |-> "Obj", o |-> o]
\* A []string, which is not a []interface{}: its elements are byte strings.
StringsVal(a) == [t |-> "Strings", a |-> a]

RECURSIVE DecimalValue(_)
DecimalValue(ds) ==
  IF ds = <<>> THEN 0
  ELSE 10 * DecimalValue(SubSeq(ds, 1, Len(ds) - 1)) + (ds[Len(ds)] - Ord["0"])

RECURSIVE Pow10(_)
Pow10(n) == IF n = 0 THEN 1 ELSE 10 * Pow10(n - 1)

RECURSIVE StripZeros(_)
StripZeros(ds) ==
  IF Len(ds) > 1 /\ ds[1] = Ord["0"] THEN StripZeros(Tail(ds)) ELSE ds

RECURSIVE DigitsLeq(_, _)
DigitsLeq(a, b) ==
  IF a = <<>> THEN TRUE
  ELSE IF a[1] # b[1] THEN a[1] < b[1]
  ELSE DigitsLeq(Tail(a), Tail(b))

Int64MaxDigits ==
  W(<<"9", "2", "2", "3", "3", "7", "2", "0", "3", "6", "8", "5", "4", "7", "7", "5", "8", "0", "7">>)

\* strconv.ParseInt(lit, 10, 64) on an optionally signed digit string.
ParseInt(lit) ==
  LET neg == lit # <<>> /\ lit[1] = Ord["-"]
      ds0 == IF lit # <<>> /\ (lit[1] = Ord["-"] \/ lit[1] = Ord["+"]) THEN Tail(lit) ELSE lit
      wellFormed == ds0 # <<>> /\ \A i \in 1..Len(ds0) : isDigit(ds0[i])
      ds == StripZeros(ds0)
      inRange == \/ Len(ds) < Len(Int64MaxDigits)
                 \/ Len(ds) = Len(Int64MaxDigits) /\ DigitsLeq(ds, Int64MaxDigits)
  IN IF wellFormed /\ inRange
       THEN [ok |-> TRUE, i |-> IF neg THEN 0 - DecimalValue(ds) ELSE DecimalValue(ds)]
       ELSE [ok |-> FALSE, i |-> 0]

IndexOfAny(lit, bs) ==
  IF \E i \in 1..Len(lit) : lit[i] \in bs
    THEN CHOOSE i \in 1..Len(lit) : lit[i] \in bs /\ \A j \in 1..(i - 1) : lit[j] \notin bs
    ELSE 0

MaxFloatExp == 308

\* strconv.ParseFloat(lit, 64) on digits [ "." digits ] [ ("e"|"E") [sign] digits ],
\* to the grid of tenths.
ParseFloat(lit) ==
  LET digits(ds) == \A i \in 1..Len(ds) : isDigit(ds[i])
      signOf(bs) == bs # <<>> /\ (bs[1] = Ord["-"] \/ bs[1] = Ord["+"])
      \* ip, fp: the digits before and after the point; eds: the exponent's digits.
      value(neg, ip, fp, hasExp, expNeg, eds) ==
        LET wellFormed == /\ digits(ip) /\ digits(fp) /\ (ip # <<>> \/ fp # <<>>)
                          /\ (~hasExp \/ (eds # <<>> /\ digits(eds)))
            e == IF hasExp THEN DecimalValue(eds) ELSE 0
            tenths == DecimalValue(ip) * FloatScale + (IF fp = <<>> THEN 0 ELSE fp[1] - Ord["0"])
            sign == IF neg THEN 0 - 1 ELSE 1
        IN IF ~wellFormed \/ (~expNeg /\ e > MaxFloatExp /\ tenths # 0)
             THEN [ok |-> FALSE, f |-> 0]
             ELSE [ok |-> TRUE,
                   f |-> sign * (IF expNeg THEN tenths \div Pow10(e) ELSE tenths * Pow10(e))]
      point(neg, mant, dot, hasExp, expo) ==
        value(neg,
              IF dot = 0 THEN mant ELSE SubSeq(mant, 1, dot - 1),
              IF dot = 0 THEN <<>> ELSE SubSeq(mant, dot + 1, Len(mant)),
              hasExp,
              expo # <<>> /\ expo[1] = Ord["-"],
              IF signOf(expo) THEN Tail(expo) ELSE expo)
      mantissa(neg, mant, hasExp, expo) ==
        point(neg, mant, IndexOfAny(mant, {Ord["."]}), hasExp, expo)
      exponent(neg, body, ePos) ==
        mantissa(neg,
                 IF ePos = 0 THEN body ELSE SubSeq(body, 1, ePos - 1),
                 ePos # 0,
                 IF ePos = 0 THEN <<>> ELSE SubSeq(body, ePos + 1, Len(body)))
      unsigned(neg, body) == exponent(neg, body, IndexOfAny(body, {Ord["e"], Ord["E"]}))
  IN unsigned(lit # <<>> /\ lit[1] = Ord["-"], IF signOf(lit) THEN Tail(lit) ELSE lit)

\* types.ParseNumber: a float when the literal holds '.', 'e' or 'E'; 0 on a parse error.
ParseNumber(lit) ==
  IF IndexOfAny(lit, {Ord["."], Ord["e"], Ord["E"]}) # 0
    THEN LET float(r) == IF r.ok THEN FloatVal(r.f) ELSE FloatVal(0) IN float(ParseFloat(lit))
    ELSE LET int(r) == IF r.ok THEN IntVal(r.i) ELSE IntVal(0) IN int(ParseInt(lit))

ToUpperByte(b) == IF Ord["a"] <= b /\ b <= Ord["z"] THEN b - 32 ELSE b
ToUpper(bs) == [i \in 1..Len(bs) |-> ToUpperByte(bs[i])]

isTrimSpace(b) == b \in {9, 10, 11, 12, 13, 32}

RECURSIVE TrimLeft(_)
TrimLeft(bs) == IF bs # <<>> /\ isTrimSpace(bs[1]) THEN TrimLeft(Tail(bs)) ELSE bs

RECURSIVE TrimRight(_)
TrimRight(bs) ==
  IF bs # <<>> /\ isTrimSpace(bs[Len(bs)]) THEN TrimRight(SubSeq(bs, 1, Len(bs) - 1)) ELSE bs

TrimSpace(bs) == TrimRight(TrimLeft(bs))

(***************************************************************************)
(* AST nodes                                                                *)
(***************************************************************************)
Nil == [n |-> "nil"]

LiteralExpr(value, line, col) == [n |-> "Literal", value |-> value, line |-> line, col |-> col]
IdentifierExpr(name, line, col) == [n |-> "Identifier", name |-> name, line |-> line, col |-> col]
ContextExpr(ident, subscript, line, col) ==
  [n |-> "Context", ident |-> ident, subscript |-> subscript, line |-> line, col |-> col]
UnaryExpr(op, expr, line, col) ==
  [n |-> "Unary", op |-> op, expr |-> expr, line |-> line, col |-> col]
BinaryExpr(left, op, right, line, col) ==
  [n |-> "Binary", left |-> left, op |-> op, right |-> right, line |-> line, col |-> col]
MemberPart(optional, isIndex, key, expr, line, col) ==
  [optional |-> optional, isIndex |-> isIndex, key |-> key, expr |-> expr,
   line |-> line, col |-> col]
MemberAccessExpr(target, parts) == [n |-> "MemberAccess", target |-> target, parts |-> parts]
FunctionCallExpr(namespace, args, line, col, parenLine, parenCol) ==
  [n |-> "FunctionCall", namespace |-> namespace, args |-> args, line |-> line, col |-> col,
   parenLine |-> parenLine, parenCol |-> parenCol]
ArrayLiteralExpr(elements, line, col) ==
  [n |-> "ArrayLiteral", elements |-> elements, line |-> line, col |-> col]
\* Fields is a Go map from key to expression: it keeps no order.
ObjectLiteralExpr(fields, line, col) ==
  [n |-> "ObjectLiteral", fields |-> fields, line |-> line, col |-> col]

(***************************************************************************)
(* Parser: current and peek token over a TokenStream.  Every parse function *)
(* yields the parser after the call, the expression and the error.          *)
(***************************************************************************)
PR(p, e, err) == [p |-> p, e |-> e, err |-> err]
Fail(p, err) == PR(p, Nil, err)

ZeroToken == Token(TokenEof, <<>>, 0, 0)

nextToken(p) ==
  LET advance(n) ==
        [p |-> [ts |-> n.l, cur |-> p.peek,
                peek |-> IF n.err = NoErr THEN n.tok ELSE p.peek],
         err |-> n.err]
  IN advance(StreamNextToken(p.ts))

NewParser(ts) ==
  LET second(n1) == IF n1.err # NoErr THEN n1 ELSE nextToken(n1.p)
  IN second(nextToken([ts |-> ts, cur |-> ZeroToken, peek |-> ZeroToken]))

curTokenIs(p, t) == p.cur.type = t
peekTokenIs(p, t) == p.peek.type = t

\* The loop condition of each binary level.
isOperator(level, p) ==
  CASE level = "or" ->
         curTokenIs(p, TokenOr)
           \/ (curTokenIs(p, TokenIdent) /\ ToUpper(p.cur.lit) = W(<<"O", "R">>))
    [] level = "and" ->
         curTokenIs(p, TokenAnd)
           \/ (curTokenIs(p, TokenIdent) /\ ToUpper(p.cur.lit) = W(<<"A", "N", "D">>))
    [] level = "equality" -> curTokenIs(p, TokenEq) \/ curTokenIs(p, TokenNeq)
    [] level = "relational" ->
         curTokenIs(p, TokenLt) \/ curTokenIs(p, TokenGt)
           \/ curTokenIs(p, TokenLte) \/ curTokenIs(p, TokenGte)
    [] level = "additive" -> curTokenIs(p, TokenPlus) \/ curTokenIs(p, TokenMinus)
    [] level = "multiplicative" -> curTokenIs(p, TokenMultiply) \/ curTokenIs(p, TokenDivide)

RECURSIVE ParseExpression(_), parseOrExpression(_), parseAndExpression(_),
          parseEqualityExpression(_), parseRelationalExpression(_),
          parseAdditiveExpression(_), parseMultiplicativeExpression(_),
          parseUnaryExpression(_), parseMemberAccessExpression(_),
          parsePrimaryExpressionInner(_), parseContextExpression(_), parseParenthesized(_),
          parseFunctionCall(_), parseArrayLiteral(_), parseObjectLiteral(_),
          parseLevel(_, _), binaryLoop(_, _, _), binaryLoopRight(_, _, _), memberLoop(_, _),
          expressionListLoop(_, _), objectFieldLoop(_, _)

\* The binary levels from the loosest to the tightest; below the last one is
\* parseUnaryExpression.
Levels == <<"or", "and", "equality", "relational", "additive", "multiplicative">>

\* A loop that takes the whole rest of its level as the right operand, which
\* groups the operators of a level to the right.
binaryLoopRight(p, left, level) ==
  LET afterOperand(r) ==
        IF r.err # NoErr THEN r
        ELSE binaryLoopRight(r.p, BinaryExpr(left, p.cur.type, r.e, p.cur.line, p.cur.col),
                             level)
      afterOperator(n) ==
        IF n.err # NoErr THEN Fail(n.p, n.err) ELSE afterOperand(parseLevel(n.p, level))
  IN IF ~isOperator(Levels[level], p) THEN PR(p, left, NoErr) ELSE afterOperator(nextToken(p))

\* The for loop shared by the six binary levels: left-associative folding of
\* operands parsed one level down.
binaryLoop(p, left, level) ==
  LET afterOperand(r) ==
        IF r.err # NoErr THEN r
        ELSE binaryLoop(r.p, BinaryExpr(left, p.cur.type, r.e, p.cur.line, p.cur.col), level)
      afterOperator(n) ==
        IF n.err # NoErr THEN Fail(n.p, n.err) ELSE afterOperand(parseLevel(n.p, level + 1))
  IN IF ~isOperator(Levels[level], p) THEN PR(p, left, NoErr) ELSE afterOperator(nextToken(p))

\* The parse function of a binary level: an operand one level down, then the loop.
parseLevel(p, level) ==
  LET afterOperand(r) == IF r.err # NoErr THEN r ELSE binaryLoop(r.p, r.e, level)
  IN IF level > Len(Levels) THEN parseUnaryExpression(p)
     ELSE afterOperand(parseLevel(p, level + 1))

parseOrExpression(p) == parseLevel(p, 1)
parseAndExpression(p) == parseLevel(p, 2)
parseEqualityExpression(p) == parseLevel(p, 3)
parseRelationalExpression(p) == parseLevel(p, 4)
parseAdditiveExpression(p) == parseLevel(p, 5)
parseMultiplicativeExpression(p) == parseLevel(p, 6)

ParseExpression(p) == parseOrExpression(p)

parseUnaryExpression(p) ==
  LET afterOperand(r) ==
        IF r.err # NoErr THEN r
        ELSE PR(r.p, UnaryExpr(p.cur.type, r.e, p.cur.line, p.cur.col), NoErr)
      afterOperator(n) ==
        IF n.err # NoErr THEN Fail(n.p, n.err) ELSE afterOperand(parseUnaryExpression(n.p))
  IN IF curTokenIs(p, TokenNot) \/ curTokenIs(p, TokenMinus)
       THEN afterOperator(nextToken(p))
       ELSE parseMemberAccessExpression(p)

\* Appending a part: onto the MemberAccessExpr itself when expr is one.
AppendPart(expr, part) ==
  IF expr.n = "MemberAccess"
    THEN [expr EXCEPT !.parts = Append(@, part)]
    ELSE MemberAccessExpr(expr, <<part>>)

memberLoop(p, expr) ==
  LET \* n2: after the nextToken that follows the member name.
      afterName(part, n2) ==
        IF n2.err # NoErr THEN Fail(n2.p, n2.err) ELSE memberLoop(n2.p, AppendPart(expr, part))
      \* n: after the nextToken that follows the dot.
      afterDot(n) ==
        IF n.err # NoErr THEN Fail(n.p, n.err)
        ELSE IF ~curTokenIs(n.p, TokenIdent) /\ n.p.cur.type # TokenString
          THEN Fail(n.p, NewSyntaxError("Expected identifier after dot at line %d, column %d",
                                        <<n.p.cur.line, n.p.cur.col>>,
                                        n.p.cur.line, n.p.cur.col))
        ELSE afterName(MemberPart(curTokenIs(p, TokenQuestionDot), FALSE,
                                  TrimSpace(n.p.cur.lit), Nil, n.p.cur.line, n.p.cur.col),
                       nextToken(n.p))
      \* n2: after the nextToken that follows the closing bracket.
      afterClose(r, n2) ==
        IF n2.err # NoErr THEN Fail(n2.p, n2.err)
        ELSE memberLoop(n2.p,
                        AppendPart(expr,
                                   MemberPart(curTokenIs(p, TokenQuestionBracket), TRUE, <<>>, r.e,
                                              n2.p.cur.line, n2.p.cur.col)))
      afterIndex(r) ==
        IF r.err # NoErr THEN r
        ELSE IF ~curTokenIs(r.p, TokenRightBracket)
          THEN Fail(r.p, NewSyntaxError("Expected closing bracket at line %d, column %d",
                                        <<r.p.cur.line, r.p.cur.col>>,
                                        r.p.cur.line, r.p.cur.col))
        ELSE afterClose(r, nextToken(r.p))
      afterBracket(n) ==
        IF n.err # NoErr THEN Fail(n.p, n.err) ELSE afterIndex(ParseExpression(n.p))
  IN IF curTokenIs(p, TokenDot) \/ curTokenIs(p, TokenQuestionDot)
       THEN afterDot(nextToken(p))
     ELSE IF curTokenIs(p, TokenLeftBracket) \/ curTokenIs(p, TokenQuestionBracket)
       THEN afterBracket(nextToken(p))
     ELSE PR(p, expr, NoErr)

parseMemberAccessExpression(p) ==
  LET afterPrimary(r) == IF r.err # NoErr THEN r ELSE memberLoop(r.p, r.e)
  IN afterPrimary(parsePrimaryExpressionInner(p))

\* The node a parse function returns once the nextToken past its last token
\* has succeeded.
finish(n, expr) == IF n.err # NoErr THEN Fail(n.p, n.err) ELSE PR(n.p, expr, NoErr)

\* The literal value of the current token.
literalValue(tok) ==
  CASE tok.type = TokenNumber -> ParseNumber(tok.lit)
    [] tok.type = TokenString -> StrVal(tok.lit)
    [] tok.type = TokenBool -> BoolVal(tok.lit = W(<<"t", "r", "u", "e">>))
    [] OTHER -> Null

\* A literal node for the current token, then nextToken.
parseLiteral(p) ==
  finish(nextToken(p), LiteralExpr(literalValue(p.cur), p.cur.line, p.cur.col))

\* case TokenLparen of parsePrimaryExpressionInner.
parseParenthesized(p) ==
  LET afterInner(r) ==
        IF r.err # NoErr THEN r
        ELSE IF ~curTokenIs(r.p, TokenRparen)
          THEN Fail(r.p, NewSyntaxError("Expected RPAREN", <<>>, r.p.cur.line, r.p.cur.col))
        ELSE finish(nextToken(r.p), r.e)
      afterParen(n) ==
        IF n.err # NoErr THEN Fail(n.p, n.err) ELSE afterInner(ParseExpression(n.p))
  IN afterParen(nextToken(p))

parsePrimaryExpressionInner(p) ==
  CASE p.cur.type = TokenLparen -> parseParenthesized(p)
    [] p.cur.type \in {TokenNumber, TokenString, TokenBool, TokenNull} -> parseLiteral(p)
    [] p.cur.type = TokenDollar -> parseContextExpression(p)
    [] p.cur.type = TokenLeftCurly -> parseObjectLiteral(p)
    [] p.cur.type = TokenLeftBracket -> parseArrayLiteral(p)
    [] p.cur.type = TokenIdent ->
         IF peekTokenIs(p, TokenLparen) \/ peekTokenIs(p, TokenDot)
           THEN parseFunctionCall(p)
           ELSE Fail(p, NewSyntaxError(
                   "Bare identifier '%s' is not allowed outside of context references or object keys",
                   p.cur.lit, p.cur.line, p.cur.col))
    [] OTHER ->
         Fail(p, NewSyntaxError("Unexpected token %s", p.cur.lit, p.cur.line, p.cur.col))

parseContextExpression(p) ==
  LET afterSubscript(r) ==
        IF r.err # NoErr THEN r
        ELSE IF ~curTokenIs(r.p, TokenRightBracket)
          THEN Fail(r.p, NewSyntaxError("Expected RBRACKET in context expression",
                                        <<>>, r.p.cur.line, r.p.cur.col))
        ELSE finish(nextToken(r.p), ContextExpr(Nil, r.e, p.cur.line, p.cur.col))
      afterBracket(n2) ==
        IF n2.err # NoErr THEN Fail(n2.p, n2.err) ELSE afterSubscript(ParseExpression(n2.p))
      afterDollar(n) ==
        IF n.err # NoErr THEN Fail(n.p, n.err)
        ELSE IF curTokenIs(n.p, TokenIdent)
          THEN finish(nextToken(n.p),
                      ContextExpr(IdentifierExpr(n.p.cur.lit, n.p.cur.line, n.p.cur.col), Nil,
                                  p.cur.line, p.cur.col))
        ELSE IF curTokenIs(n.p, TokenLeftBracket)
          THEN afterBracket(nextToken(n.p))
        ELSE PR(n.p, ContextExpr(Nil, Nil, p.cur.line, p.cur.col), NoErr)
  IN afterDollar(nextToken(p))

\* for p.curTokenIs(TokenComma): nextToken, ParseExpression, append.  The e
\* of the result is the list of expressions.
expressionListLoop(p, acc) ==
  LET afterElement(r) ==
        IF r.err # NoErr THEN r ELSE expressionListLoop(r.p, Append(acc, r.e))
      afterComma(n) ==
        IF n.err # NoErr THEN Fail(n.p, n.err) ELSE afterElement(ParseExpression(n.p))
  IN IF ~curTokenIs(p, TokenComma) THEN PR(p, acc, NoErr) ELSE afterComma(nextToken(p))

\* The first expression of a list and the loop over the rest.
expressionList(first) ==
  IF first.err # NoErr THEN first ELSE expressionListLoop(first.p, <<first.e>>)

\* for p.curTokenIs(TokenDot) in parseFunctionCall: the dotted namespace.
RECURSIVE namespaceLoop(_, _)
namespaceLoop(p, parts) ==
  LET afterName(name, n2) ==
        IF n2.err # NoErr THEN Fail(n2.p, n2.err) ELSE namespaceLoop(n2.p, Append(parts, name))
      afterDot(n) ==
        IF n.err # NoErr THEN Fail(n.p, n.err)
        ELSE IF ~curTokenIs(n.p, TokenIdent)
          THEN Fail(n.p, NewSyntaxError("Expected identifier after dot in function call",
                                        <<>>, n.p.cur.line, n.p.cur.col))
        ELSE afterName(n.p.cur.lit, nextToken(n.p))
  IN IF ~curTokenIs(p, TokenDot) THEN PR(p, parts, NoErr) ELSE afterDot(nextToken(p))

parseFunctionCall(p) ==
  LET afterArgs(ns, parenToken, args) ==
        IF args.err # NoErr THEN args
        ELSE finish(nextToken(args.p),
                    FunctionCallExpr(ns.e, args.e, p.cur.line, p.cur.col,
                                     parenToken.line, parenToken.col))
      closing(rest) ==
        IF rest.err # NoErr THEN rest
        ELSE IF ~curTokenIs(rest.p, TokenRparen)
          THEN Fail(rest.p, NewSyntaxError("Expected ')' after arguments in function call",
                                           <<>>, rest.p.cur.line, rest.p.cur.col))
        ELSE rest
      afterParen(ns, n2) ==
        IF n2.err # NoErr THEN Fail(n2.p, n2.err)
        ELSE afterArgs(ns, ns.p.cur,
                       IF curTokenIs(n2.p, TokenRparen) THEN PR(n2.p, <<>>, NoErr)
                       ELSE closing(expressionList(ParseExpression(n2.p))))
      afterNamespace(ns) ==
        IF ns.err # NoErr THEN ns
        ELSE IF ~curTokenIs(ns.p, TokenLparen)
          THEN Fail(ns.p, NewSyntaxError("Expected '(' in function call", <<>>,
                                         ns.p.cur.line, ns.p.cur.col))
        ELSE afterParen(ns, nextToken(ns.p))
      afterName(n) ==
        IF n.err # NoErr THEN Fail(n.p, n.err)
        ELSE afterNamespace(namespaceLoop(n.p, <<p.cur.lit>>))
  IN afterName(nextToken(p))

parseArrayLiteral(p) ==
  LET closing(rest) ==
        IF rest.err # NoErr THEN rest
        ELSE IF ~curTokenIs(rest.p, TokenRightBracket)
          THEN Fail(rest.p, NewSyntaxError("Expected ']' at end of array literal", <<>>,
                                           rest.p.cur.line, rest.p.cur.col))
        ELSE finish(nextToken(rest.p), ArrayLiteralExpr(rest.e, p.cur.line, p.cur.col))
      afterBracket(n) ==
        IF n.err # NoErr THEN Fail(n.p, n.err)
        ELSE IF curTokenIs(n.p, TokenRightBracket)
          THEN finish(nextToken(n.p), ArrayLiteralExpr(<<>>, p.cur.line, p.cur.col))
        ELSE closing(expressionList(ParseExpression(n.p)))
  IN afterBracket(nextToken(p))

\* The for loop of parseObjectLiteral; the e of the result is the fields map,
\* and the loop ends with the current token on the closing brace.
objectFieldLoop(p, fields) ==
  LET afterComma(n3, fields2) ==
        IF n3.err # NoErr THEN Fail(n3.p, n3.err) ELSE objectFieldLoop(n3.p, fields2)
      afterValue(r, fields2) ==
        IF curTokenIs(r.p, TokenComma)
          THEN IF peekTokenIs(r.p, TokenRightCurly)
                 THEN Fail(r.p, NewSyntaxError("Trailing comma not allowed in object literal",
                                               <<>>, r.p.peek.line, r.p.peek.col))
                 ELSE afterComma(nextToken(r.p), fields2)
        ELSE IF curTokenIs(r.p, TokenRightCurly) THEN PR(r.p, fields2, NoErr)
        ELSE Fail(r.p, NewSyntaxError("Expected ',' or '}' after object field", <<>>,
                                      r.p.cur.line, r.p.cur.col))
      value(key, r) == IF r.err # NoErr THEN r ELSE afterValue(r, fields @@ (key :> r.e))
      afterColon(key, n2) ==
        IF n2.err # NoErr THEN Fail(n2.p, n2.err) ELSE value(key, ParseExpression(n2.p))
      afterKey(key, n1) ==
        IF n1.err # NoErr THEN Fail(n1.p, n1.err) ELSE afterColon(key, nextToken(n1.p))
      field(key) ==
        IF key \in DOMAIN fields
          THEN Fail(p, NewSemanticError("Duplicate key '%s' detected", key, p.cur.line, p.cur.col))
        ELSE IF ~peekTokenIs(p, TokenColon)
          THEN Fail(p, NewSyntaxError("Expected ':' after object key", <<>>,
                                      p.peek.line, p.peek.col))
        ELSE afterKey(key, nextToken(p))
  IN IF ~(curTokenIs(p, TokenIdent) \/ curTokenIs(p, TokenString))
       THEN Fail(p, NewSyntaxError("Expected identifier or string as object key", <<>>,
                                   p.cur.line, p.cur.col))
       ELSE field(TrimSpace(p.cur.lit))

parseObjectLiteral(p) ==
  LET afterFields(fl) ==
        IF fl.err # NoErr THEN fl
        ELSE finish(nextToken(fl.p), ObjectLiteralExpr(fl.e, p.cur.line, p.cur.col))
      afterBrace(n) ==
        IF n.err # NoErr THEN Fail(n.p, n.err)
        ELSE IF curTokenIs(n.p, TokenRightCurly)
          THEN finish(nextToken(n.p), ObjectLiteralExpr(<<>>, p.cur.line, p.cur.col))
        ELSE afterFields(objectFieldLoop(n.p, <<>>))
  IN afterBrace(nextToken(p))

\* The callers' sequence: NewParser on the stream, then ParseExpression.
ParseStream(ts) ==
  LET parse(np) == IF np.err # NoErr THEN Fail(np.p, np.err) ELSE ParseExpression(np.p)
  IN parse(NewParser(ts))

(***************************************************************************)
(* types: numeric conversions, formatting, equality and comparison          *)
(***************************************************************************)
\* Go's float64 -> int64 conversion truncates toward zero.
TruncDiv(a, b) == IF a >= 0 THEN a \div b ELSE 0 - ((0 - a) \div b)

\* types.ToFloat: the value on the grid of tenths.
ToFloat(val) ==
  CASE val.t = "Int" -> [f |-> val.i * FloatScale, ok |-> TRUE]
    [] val.t = "Float" -> [f |-> val.f, ok |-> TRUE]
    [] OTHER -> [f |-> 0, ok |-> FALSE]

\* A conversion to int64 that rounds a float64 down instead of toward zero.
ToIntFloor(val) ==
  CASE val.t = "Int" -> [i |-> val.i, ok |-> TRUE]
    [] val.t = "Float" -> [i |-> val.f \div FloatScale, ok |-> TRUE]
    [] OTHER -> [i |-> 0, ok |-> FALSE]

\* types.ToInt
ToInt(val) ==
  CASE val.t = "Int" -> [i |-> val.i, ok |-> TRUE]
    [] val.t = "Float" -> [i |-> TruncDiv(val.f, FloatScale), ok |-> TRUE]
    [] OTHER -> [i |-> 0, ok |-> FALSE]

\* IsInt taking every number for an integer.
IsIntOfAnyNumber(val) == val.t \in {"Int", "Float"}

\* types.IsInt
IsInt(val) == val.t = "Int"

\* int64(f) for a float64 f on the grid.
Int64OfFloat(f) == IntVal(TruncDiv(f, FloatScale))

RECURSIVE NatDigits(_)
NatDigits(n) ==
  IF n < 10 THEN <<Ord["0"] + n>> ELSE Append(NatDigits(n \div 10), Ord["0"] + (n % 10))

IntDigits(i) == IF i < 0 THEN <<Ord["-"]>> \o NatDigits(0 - i) ELSE NatDigits(i)

\* %v of a float64 on the grid: the shortest decimal that reads back.
FloatDigits(f) ==
  LET m == IF f < 0 THEN 0 - f ELSE f
      body == IF m % FloatScale = 0 THEN NatDigits(m \div FloatScale)
              ELSE NatDigits(m \div FloatScale) \o <<Ord["."]>> \o NatDigits(m % FloatScale)
  IN IF f < 0 THEN <<Ord["-"]>> \o body ELSE body

RECURSIVE BytesLess(_, _)
BytesLess(a, b) ==
  IF b = <<>> THEN FALSE
  ELSE IF a = <<>> THEN TRUE
  ELSE IF a[1] # b[1] THEN a[1] < b[1]
  ELSE BytesLess(Tail(a), Tail(b))

\* The keys of a set in increasing byte order.
RECURSIVE SortedKeys(_)
SortedKeys(ks) ==
  IF ks = {} THEN <<>>
  ELSE LET k == CHOOSE x \in ks : \A y \in ks \ {x} : BytesLess(x, y)
       IN <<k>> \o SortedKeys(ks \ {k})

\* fmt.Sprintf("%v", val)
RECURSIVE Format(_), FormatElems(_), FormatFields(_, _)
Format(val) ==
  CASE val.t = "Null" -> W(<<"<", "n", "i", "l", ">">>)
    [] val.t = "Bool" -> IF val.b THEN W(<<"t", "r", "u", "e">>) ELSE W(<<"f", "a", "l", "s", "e">>)
    [] val.t = "Int" -> IntDigits(val.i)
    [] val.t = "Float" -> FloatDigits(val.f)
    [] val.t = "Str" -> val.s
    [] val.t = "Arr" -> <<Ord["["]>> \o FormatElems(val.a) \o <<Ord["]"]>>
    [] val.t = "Obj" -> W(<<"m", "a", "p", "[">>) \o FormatFields(val.o, SortedKeys(DOMAIN val.o))
                          \o <<Ord["]"]>>

FormatElems(a) ==
  IF a = <<>> THEN <<>>
  ELSE IF Len(a) = 1 THEN Format(a[1])
  ELSE Format(a[1]) \o <<Ord[" "]>> \o FormatElems(Tail(a))

FormatFields(o, ks) ==
  IF ks = <<>> THEN <<>>
  ELSE LET one == ks[1] \o <<Ord[":"]>> \o Format(o[ks[1]])
       IN IF Len(ks) = 1 THEN one ELSE one \o <<Ord[" "]>> \o FormatFields(o, Tail(ks))

\* types.Equals: numbers within 1e-9 of each other, anything else by its %v text.
Equals(left, right) ==
  LET l == ToFloat(left)
      r == ToFloat(right)
  IN IF l.ok /\ r.ok THEN l.f = r.f ELSE Format(left) = Format(right)

\* The comparison an operator text names.
CompareBy(op, lt, eq) ==
  CASE op = "<" -> lt
    [] op = ">" -> ~lt /\ ~eq
    [] op = "<=" -> lt \/ eq
    [] op = ">=" -> ~lt

\* The bytes of an operator text.
OpText(op) ==
  CASE op = "<" -> W(<<"<">>)
    [] op = ">" -> W(<<">">>)
    [] op = "<=" -> W(<<"<", "=">>)
    [] op = ">=" -> W(<<">", "=">>)

\* types.Compare
Compare(left, right, op, line, column) ==
  LET l == ToFloat(left)
      r == ToFloat(right)
  IN IF l.ok /\ r.ok
       THEN [b |-> CompareBy(op, l.f < r.f, l.f = r.f), err |-> NoErr]
     ELSE IF left.t = "Str" /\ right.t = "Str"
       THEN [b |-> CompareBy(op, BytesLess(left.s, right.s), left.s = right.s), err |-> NoErr]
     ELSE [b |-> FALSE,
           err |-> NewSemanticError("'%s' operator not allowed on given types", OpText(op),
                                    line, column)]

(***************************************************************************)
(* Libraries.  An argument is param.Arg: a value and the position of its    *)
(* expression's first token; a call yields a value and an error.            *)
(***************************************************************************)
Arg(value, line, col) == [value |-> value, line |-> line, col |-> col]

LR(val, err) == [val |-> val, err |-> err]

Unquote(s) ==
  IF Len(s) >= 2 /\ ( (s[1] = Ord["\""] /\ s[Len(s)] = Ord["\""])
                      \/ (s[1] = Ord["'"] /\ s[Len(s)] = Ord["'"]) )
    THEN SubSeq(s, 2, Len(s) - 1)
    ELSE s

\* The loop of type.intArray, type.floatArray and type.stringArray from index i on.
\* The conversion of one element in type.intArray, type.floatArray and
\* type.stringArray; i is the element's index.
ConvertElem(kind, elem, i, arg0) ==
  LET bad(msg) == LR(Null, NewFunctionCallError(msg, <<i>> \o Format(elem), arg0.line, arg0.col))
      int(r) == IF r.ok THEN LR(IntVal(r.i), NoErr)
                ELSE bad("intArray: element at index %d (%v) is not convertible to int")
      float(r) == IF r.ok THEN LR(FloatVal(r.f), NoErr)
                  ELSE bad("floatArray: element at index %d (%v) is not convertible to float")
  IN CASE kind = "int" ->
            int(IF elem.t = "Str" THEN ParseInt(TrimSpace(elem.s)) ELSE ToInt(elem))
       [] kind = "float" ->
            float(IF elem.t = "Str" THEN ParseFloat(TrimSpace(elem.s)) ELSE ToFloat(elem))
       [] kind = "string" ->
            LR(StrVal(IF elem.t = "Str" THEN elem.s ELSE Format(elem)), NoErr)

\* The loop of type.intArray, type.floatArray and type.stringArray from index i on.
RECURSIVE ConvertElems(_, _, _, _)
ConvertElems(kind, arr, i, arg0) ==
  LET append(one, rest) ==
        IF rest.err # NoErr THEN rest ELSE LR(ArrVal(<<one.val>> \o rest.val.a), NoErr)
      next(one) ==
        IF one.err # NoErr THEN one ELSE append(one, ConvertElems(kind, arr, i + 1, arg0))
  IN IF i > Len(arr) THEN LR(ArrVal(<<>>), NoErr)
     ELSE next(ConvertElem(kind, arr[i], i - 1, arg0))

\* types.ConvertToInterfaceSlice: the arrays of literals, of contexts and of the
\* array library are []interface{}; no case takes a []string.
ConvertToInterfaceSlice(val) ==
  IF val.t = "Arr" THEN [arr |-> val.a, ok |-> TRUE] ELSE [arr |-> <<>>, ok |-> FALSE]

\* types.ConvertToStringMap: every object of the model is a map[string]interface{}.
ConvertToStringMap(val) ==
  IF val.t = "Obj" THEN [obj |-> val.o, ok |-> TRUE] ELSE [obj |-> <<>>, ok |-> FALSE]

TypeLibCall(functionName, args, line, col) ==
  LET arg0 == args[1]
      arity(msg) == LR(Null, NewParameterError(msg, <<>>, line, col))
      toArray(kind, name) ==
        IF Len(args) # 1 THEN arity(name)
        ELSE LET c == ConvertToInterfaceSlice(arg0.value)
             IN IF ~c.ok
                  THEN LR(Null, NewFunctionCallError(
                                  IF kind = "int" THEN "intArray: value is not an array"
                                  ELSE "floatArray: value is not an array",
                                  <<>>, arg0.line, arg0.col))
                  ELSE ConvertElems(kind, c.arr, 1, arg0)
  IN
  CASE functionName = W(<<"s", "t", "r", "i", "n", "g">>) ->
         IF Len(args) # 1 THEN arity("type.string requires 1 argument")
         ELSE IF arg0.value.t = "Null" THEN LR(StrVal(<<>>), NoErr)
         ELSE LR(StrVal(Format(arg0.value)), NoErr)
    [] functionName = W(<<"i", "n", "t">>) ->
         IF Len(args) # 1 THEN arity("type.int requires 1 argument")
         ELSE IF arg0.value.t = "Null" THEN LR(IntVal(0), NoErr)
         ELSE IF arg0.value.t = "Str"
           THEN LET parsed(i, f) ==
                      IF i.ok THEN LR(IntVal(i.i), NoErr)
                      ELSE IF f.ok THEN LR(Int64OfFloat(f.f), NoErr)
                      ELSE LR(Null, NewFunctionCallError(
                                      "type.int: string '%s' cannot be converted to int",
                                      arg0.value.s, arg0.line, arg0.col))
                    text(s) == parsed(ParseInt(s), ParseFloat(s))
                IN text(Unquote(TrimSpace(arg0.value.s)))
           ELSE LET number(num) ==
                      IF ~num.ok
                        THEN LR(Null, NewTypeError("type.int: argument cannot be converted to int",
                                                   <<>>, arg0.line, arg0.col))
                        ELSE LR(Int64OfFloat(num.f), NoErr)
                IN number(ToFloat(arg0.value))
    [] functionName = W(<<"f", "l", "o", "a", "t">>) ->
         IF Len(args) # 1 THEN arity("type.float requires 1 argument")
         ELSE IF arg0.value.t = "Null" THEN LR(FloatVal(0), NoErr)
         ELSE IF arg0.value.t = "Str"
           THEN LET parsed(f) ==
                      IF f.ok THEN LR(FloatVal(f.f), NoErr)
                      ELSE LR(Null, NewFunctionCallError(
                                      "type.float: string '%s' cannot be converted to float",
                                      arg0.value.s, arg0.line, arg0.col))
                IN parsed(ParseFloat(TrimSpace(arg0.value.s)))
           ELSE LET number(num) ==
                      IF ~num.ok
                        THEN LR(Null, NewTypeError("type.float: argument cannot be converted to float",
                                                   <<>>, arg0.line, arg0.col))
                        ELSE LR(FloatVal(num.f), NoErr)
                IN number(ToFloat(arg0.value))
    [] functionName = W(<<"i", "n", "t", "A", "r", "r", "a", "y">>) ->
         toArray("int", "type.intArray requires 1 argument")
    [] functionName = W(<<"f", "l", "o", "a", "t", "A", "r", "r", "a", "y">>) ->
         toArray("float", "type.floatArray requires 1 argument")
    [] functionName = W(<<"s", "t", "r", "i", "n", "g", "A", "r", "r", "a", "y">>) ->
         toArray("string", "type.floatArray requires 1 argument")
    [] functionName = W(<<"i", "s", "N", "u", "m", "b", "e", "r">>) ->
         IF Len(args) # 1 THEN arity("type.isNumber requires 1 argument")
         ELSE IF arg0.value.t = "Str"
           THEN LR(BoolVal(ParseFloat(TrimSpace(arg0.value.s)).ok), NoErr)
           ELSE LR(BoolVal(ToFloat(arg0.value).ok), NoErr)
    [] functionName = W(<<"i", "s", "S", "t", "r", "i", "n", "g">>) ->
         IF Len(args) # 1 THEN arity("type.isString requires 1 argument")
         ELSE LR(BoolVal(arg0.value.t = "Str"), NoErr)
    [] functionName = W(<<"i", "s", "B", "o", "o", "l", "e", "a", "n">>) ->
         IF Len(args) # 1 THEN arity("type.isBoolean requires 1 argument")
         ELSE LR(BoolVal(arg0.value.t = "Bool"), NoErr)
    [] functionName = W(<<"i", "s", "A", "r", "r", "a", "y">>) ->
         IF Len(args) # 1 THEN arity("type.isArray requires 1 argument")
         ELSE LR(BoolVal(ConvertToInterfaceSlice(arg0.value).ok), NoErr)
    [] functionName = W(<<"i", "s", "O", "b", "j", "e", "c", "t">>) ->
         IF Len(args) # 1 THEN arity("type.isObject requires 1 argument")
         ELSE LR(BoolVal(ConvertToStringMap(arg0.value).ok), NoErr)
    [] functionName = W(<<"i", "s", "N", "u", "l", "l">>) ->
         IF Len(args) # 1 THEN arity("type.isNull requires 1 argument")
         ELSE LR(BoolVal(arg0.value.t = "Null"), NoErr)
    [] OTHER ->
         LR(Null, NewFunctionCallError("unknown type function '%s'", functionName, 0, 0))

\* The less function array.sort hands to sort.SliceStable.
SortLess(a, b, isNumeric, ascending) ==
  IF isNumeric
    THEN IF ascending THEN ToFloat(a).f < ToFloat(b).f ELSE ToFloat(a).f > ToFloat(b).f
    ELSE IF ascending THEN BytesLess(a.s, b.s) ELSE BytesLess(b.s, a.s)

\* Stable insertion of x behind every element it is not less than.
RECURSIVE InsertStable(_, _, _, _)
InsertStable(sorted, x, isNumeric, ascending) ==
  IF sorted = <<>> THEN <<x>>
  ELSE LET n == Len(sorted)
       IN IF SortLess(x, sorted[n], isNumeric, ascending)
            THEN Append(InsertStable(SubSeq(sorted, 1, n - 1), x, isNumeric, ascending), sorted[n])
            ELSE Append(sorted, x)

\* sort.SliceStable over a copy of the elements.
RECURSIVE SliceStable(_, _, _)
SliceStable(arr, isNumeric, ascending) ==
  IF arr = <<>> THEN <<>>
  ELSE InsertStable(SliceStable(SubSeq(arr, 1, Len(arr) - 1), isNumeric, ascending),
                    arr[Len(arr)], isNumeric, ascending)

\* The elements array.flatten appends: those of a sub-array, or the element itself.
RECURSIVE FlattenElems(_)
FlattenElems(arr) ==
  IF arr = <<>> THEN <<>>
  ELSE (IF arr[1].t = "Arr" THEN arr[1].a ELSE <<arr[1]>>) \o FlattenElems(Tail(arr))

\* The elements array.extract appends.
ExtractElems(arr, subfield, defaultVal) ==
  [i \in 1..Len(arr) |->
     IF arr[i].t = "Obj" /\ subfield \in DOMAIN arr[i].o THEN arr[i].o[subfield] ELSE defaultVal]

\* The first element array.find matches, 0 when there is none.
FindIndex(arr, subfield, matchVal) ==
  LET hit(i) == /\ arr[i].t = "Obj"
                /\ subfield \in DOMAIN arr[i].o
                /\ Equals(arr[i].o[subfield], matchVal)
  IN IF \E i \in 1..Len(arr) : hit(i)
       THEN CHOOSE i \in 1..Len(arr) : hit(i) /\ \A j \in 1..(i - 1) : ~hit(j)
       ELSE 0

\* A failed type assertion without the comma-ok form stops the program.
Panic(msg) == Err("panic", msg, <<>>, 0, 0)

ArrayLibCall(functionName, args, line, col, parenLine, parenCol) ==
  LET arg0 == args[1]
      arg1 == args[2]
      lastArg == args[Len(args)]
      c == ConvertToInterfaceSlice(arg0.value)
      arr == c.arr
      arityLast(msg) ==
        IF Len(args) = 0 THEN LR(Null, NewParameterError(msg, <<>>, parenLine, parenCol))
        ELSE LR(Null, NewParameterError(msg, <<>>, lastArg.line, lastArg.col))
      typeErr(msg, arg) == LR(Null, NewTypeError(msg, <<>>, arg.line, arg.col))
      pick(name, i) ==
        IF Len(args) < 1 \/ Len(args) > 2
          THEN arityLast(IF name = "first" THEN "array.first requires 1 or 2 arguments"
                         ELSE "array.last requires 1 or 2 arguments")
        ELSE IF ~c.ok
          THEN typeErr(IF name = "first" THEN "array.first: argument must be an array"
                       ELSE "array.last: argument must be an array", arg0)
        ELSE IF Len(arr) = 0
          THEN IF Len(args) = 2 THEN LR(arg1.value, NoErr)
               ELSE LR(Null, NewFunctionCallError(
                               IF name = "first" THEN "array.first: array is empty"
                               ELSE "array.last: array is empty", <<>>, arg0.line, arg0.col))
        ELSE LR(arr[i], NoErr)
  IN
  CASE functionName = W(<<"c", "o", "n", "t", "a", "i", "n", "s">>) ->
         IF Len(args) # 2
           THEN LR(Null, NewParameterError("array.contains requires 2 arguments", <<>>, line, col))
         ELSE IF ~c.ok THEN typeErr("array.contains: first argument must be an array", arg0)
         ELSE LR(BoolVal(\E i \in 1..Len(arr) : Equals(arr[i], arg1.value)), NoErr)
    [] functionName = W(<<"f", "i", "n", "d">>) ->
         IF Len(args) < 3 \/ Len(args) > 4 THEN arityLast("array.find requires 3 or 4 arguments")
         ELSE IF ~c.ok THEN typeErr("array.find: first argument must be an array", arg0)
         ELSE IF arg1.value.t # "Str"
           THEN typeErr("array.find: second argument must be string", arg1)
         ELSE LET i == FindIndex(arr, arg1.value.s, args[3].value)
                  defaultObj == IF Len(args) = 4 THEN args[4].value ELSE Null
              IN IF i # 0 THEN LR(arr[i], NoErr)
                 ELSE IF defaultObj.t # "Null" THEN LR(defaultObj, NoErr)
                 ELSE LR(Null, NewFunctionCallError("array.find: no match found", <<>>,
                                                    arg0.line, arg0.col))
    [] functionName = W(<<"f", "i", "r", "s", "t">>) -> pick("first", 1)
    [] functionName = W(<<"l", "a", "s", "t">>) -> pick("last", Len(arr))
    [] functionName = W(<<"e", "x", "t", "r", "a", "c", "t">>) ->
         IF Len(args) < 2 \/ Len(args) > 3
           THEN arityLast("array.extract requires 2 or 3 arguments")
         ELSE IF ~c.ok THEN typeErr("array.extract: argument must be an array", arg0)
         ELSE IF arg1.value.t # "Str"
           THEN typeErr("array.extract: second argument must be string", arg1)
         ELSE LR(ArrVal(ExtractElems(arr, arg1.value.s,
                                     IF Len(args) = 3 THEN args[3].value ELSE Null)), NoErr)
    [] functionName = W(<<"s", "o", "r", "t">>) ->
         IF Len(args) < 1 \/ Len(args) > 2 THEN arityLast("array.sort requires 1 or 2 arguments")
         ELSE IF ~c.ok THEN typeErr("array.sort: first argument must be an array", arg0)
         ELSE IF Len(args) = 2 /\ arg1.value.t # "Bool"
           THEN typeErr("array.sort: second argument must be boolean", arg1)
         ELSE LET ascending == IF Len(args) = 2 THEN arg1.value.b ELSE TRUE
                  isNumeric == ToFloat(arr[1]).ok
                  isString == ~isNumeric /\ arr[1].t = "Str"
              IN IF Len(arr) = 0 THEN LR(arg0.value, NoErr)
                 ELSE IF ~isNumeric /\ ~isString
                   THEN typeErr("array.sort: elements are not comparable", arg0)
                 ELSE IF isString /\ Len(arr) > 1 /\ \E i \in 1..Len(arr) : arr[i].t # "Str"
                   THEN LR(Null, Panic("interface conversion: interface {} is not string"))
                 ELSE LR(ArrVal(SliceStable(arr, isNumeric, ascending)), NoErr)
    [] functionName = W(<<"f", "l", "a", "t", "t", "e", "n">>) ->
         IF Len(args) # 1
           THEN LR(Null, NewParameterError("array.flatten requires 1 argument", <<>>, line, col))
         ELSE IF ~c.ok THEN typeErr("array.flatten: argument must be an array", arg0)
         ELSE LR(ArrVal(FlattenElems(arr)), NoErr)
    [] functionName = W(<<"f", "i", "l", "t", "e", "r">>) ->
         IF Len(args) < 1 \/ Len(args) > 3
           THEN LR(Null, NewParameterError("array.filter requires between 1 and 3 arguments",
                                           <<>>, line, col))
         ELSE IF ~c.ok THEN typeErr("array.filter: first argument must be an array", arg0)
         ELSE IF Len(args) = 1
           THEN LR(ArrVal(SelectSeq(arr, LAMBDA e : e.t # "Null")), NoErr)
         ELSE IF arg1.value.t # "Str"
           THEN typeErr("array.filter: subfield argument must be string", arg1)
         ELSE LET has(e) == e.t = "Obj" /\ arg1.value.s \in DOMAIN e.o
              IN IF Len(args) = 2
                   THEN LR(ArrVal(SelectSeq(arr,
                                    LAMBDA e : has(e) /\ e.o[arg1.value.s].t # "Null")), NoErr)
                   ELSE LR(ArrVal(SelectSeq(arr,
                                    LAMBDA e : has(e) /\ Equals(e.o[arg1.value.s], args[3].value))),
                           NoErr)
    [] OTHER ->
         LR(Null, NewFunctionCallError("unknown array function '%s'", functionName, 0, 0))

\* CondLib.Call
CondLibCall(functionName, args, line, col, parenLine, parenCol) ==
  LET arg0 == args[1]
      arg1 == args[2]
      firstNonNil ==
        CHOOSE i \in 1..Len(args) :
          args[i].value.t # "Null" /\ \A j \in 1..(i - 1) : args[j].value.t = "Null"
  IN
  CASE functionName = W(<<"i", "f", "E", "x", "p", "r">>) ->
         IF Len(args) # 3
           THEN LR(Null, NewParameterError("cond.ifExpr requires 3 arguments", <<>>, line, col))
         ELSE IF arg0.value.t \notin {"Bool", "Null"}
           THEN LR(Null, NewTypeError("cond.ifExpr: first argument must be boolean", <<>>,
                                      arg0.line, arg0.col))
         ELSE IF arg0.value.t = "Bool" /\ arg0.value.b THEN LR(arg1.value, NoErr)
         ELSE LR(args[3].value, NoErr)
    [] functionName = W(<<"c", "o", "a", "l", "e", "s", "c", "e">>) ->
         IF Len(args) < 1
           THEN LR(Null, NewParameterError("cond.coalesce requires at least 1 argument", <<>>,
                                           parenLine, parenCol))
         ELSE IF \E i \in 1..Len(args) : args[i].value.t # "Null"
           THEN LR(args[firstNonNil].value, NoErr)
         ELSE LR(Null, NewFunctionCallError("cond.coalesce: all arguments are null", <<>>,
                                            arg0.line, arg0.col))
    [] functionName = W(<<"i", "s", "F", "i", "e", "l", "d", "P", "r", "e", "s", "e", "n", "t">>) ->
         IF Len(args) # 2
           THEN LR(Null, NewParameterError("cond.isFieldPresent requires 2 arguments", <<>>,
                                           line, col))
         ELSE IF ~ConvertToStringMap(arg0.value).ok
           THEN LR(Null, NewTypeError("cond.isFieldPresent: first argument must be an object",
                                      <<>>, arg0.line, arg0.col))
         ELSE IF arg1.value.t # "Str"
           THEN LR(Null, NewTypeError("cond.isFieldPresent: second argument must be a string",
                                      <<>>, arg1.line, arg1.col))
         ELSE LR(BoolVal(arg1.value.s \in DOMAIN arg0.value.o), NoErr)
    [] OTHER ->
         LR(Null, NewFunctionCallError("unknown cond function '%s'", functionName, 0, 0))

\* strings.Index: the 1-based offset of the first occurrence of d in s, 0
\* when there is none.
IndexOf(s, d) ==
  LET hits == {i \in 1..(Len(s) - Len(d) + 1) : SubSeq(s, i, i + Len(d) - 1) = d}
  IN IF hits = {} THEN 0 ELSE CHOOSE i \in hits : \A j \in hits : i <= j

\* strings.Split: the pieces of s between the occurrences of d taken from the
\* left; the bytes of s one by one when d is empty.
RECURSIVE Split(_, _)
Split(s, d) ==
  IF d = <<>> THEN [i \in 1..Len(s) |-> <<s[i]>>]
  ELSE IF IndexOf(s, d) = 0 THEN <<s>>
  ELSE <<SubSeq(s, 1, IndexOf(s, d) - 1)>> \o Split(SubSeq(s, IndexOf(s, d) + Len(d), Len(s)), d)

\* strings.Join
RECURSIVE Join(_, _)
Join(parts, sep) ==
  IF parts = <<>> THEN <<>>
  ELSE IF Len(parts) = 1 THEN parts[1]
  ELSE parts[1] \o sep \o Join(Tail(parts), sep)

\* StringLib.Call: split, join and substring.  The texts of the model are
\* ASCII, so the runes of a string are its bytes.  The other functions of the
\* library are outside this model.
StringLibCall(functionName, args, line, col, parenLine, parenCol) ==
  LET arg0 == args[1]
      arg1 == args[2]
      arg2 == args[3]
      arity(msg) == LR(Null, NewParameterError(msg, <<>>, line, col))
      typeErr(msg, arg) == LR(Null, NewTypeError(msg, <<>>, arg.line, arg.col))
      slice(runes, start, end) ==
        IF end < start
          THEN LR(Null, Panic("slice bounds out of range"))
          ELSE LR(StrVal(SubSeq(runes, start + 1, end)), NoErr)
  IN
  CASE functionName = W(<<"s", "p", "l", "i", "t">>) ->
         IF Len(args) # 2 THEN arity("string.split requires 2 arguments")
         ELSE IF arg0.value.t # "Str"
           THEN typeErr("string.split: first argument must be string", arg0)
         ELSE IF arg1.value.t # "Str"
           THEN typeErr("string.split: second argument must be string", arg1)
         ELSE LR(StringsVal(Split(arg0.value.s, arg1.value.s)), NoErr)
    [] functionName = W(<<"j", "o", "i", "n">>) ->
         IF Len(args) # 2 THEN arity("string.join requires 2 arguments")
         ELSE IF arg0.value.t # "Arr"
           THEN typeErr("string.join: first argument must be an array", arg0)
         ELSE IF arg1.value.t # "Str"
           THEN typeErr("string.join: second argument must be string", arg1)
         ELSE IF \E i \in 1..Len(arg0.value.a) : arg0.value.a[i].t # "Str"
           THEN typeErr("string.join: all array elements must be strings", arg0)
         ELSE LR(StrVal(Join([i \in 1..Len(arg0.value.a) |-> arg0.value.a[i].s], arg1.value.s)),
                 NoErr)
    [] functionName = W(<<"s", "u", "b", "s", "t", "r", "i", "n", "g">>) ->
         IF Len(args) # 3 THEN arity("string.substring requires 3 arguments")
         ELSE IF arg0.value.t # "Str"
           THEN typeErr("string.substring: first argument must be a string", arg0)
         ELSE IF ~ToInt(arg1.value).ok
           THEN typeErr("string.substring: second argument must be an integer", arg1)
         ELSE IF ~ToInt(arg2.value).ok
           THEN typeErr("string.substring: third argument must be an integer", arg2)
         ELSE IF ToInt(arg1.value).i < 0 \/ ToInt(arg1.value).i >= Len(arg0.value.s)
           THEN LR(Null, NewFunctionCallError("string.substring: start index out of bounds",
                                              <<>>, arg1.line, arg1.col))
         ELSE IF ToInt(arg1.value).i + ToInt(arg2.value).i > Len(arg0.value.s)
           THEN slice(arg0.value.s, ToInt(arg1.value).i, Len(arg0.value.s))
         ELSE slice(arg0.value.s, ToInt(arg1.value).i, ToInt(arg1.value).i + ToInt(arg2.value).i)
    [] OTHER -> LR(Null, Err("unmodelled", "function outside the model", functionName, line, col))

(***************************************************************************)
(* Environment                                                              *)
(***************************************************************************)
\* env.NewEnvironment: the names the default libraries are registered under.
Libraries ==
  { W(<<"t", "i", "m", "e">>), W(<<"m", "a", "t", "h">>), W(<<"s", "t", "r", "i", "n", "g">>),
    W(<<"r", "e", "g", "e", "x">>), W(<<"a", "r", "r", "a", "y">>), W(<<"c", "o", "n", "d">>),
    W(<<"t", "y", "p", "e">>) }

\* Environment.GetLibrary
GetLibrary(name) == name \in Libraries

\* lib.Call of the library registered under libName.  The functions of time,
\* math and regex are outside this model.
LibraryCall(libName, funcName, args, line, col, parenLine, parenCol) ==
  CASE libName = W(<<"t", "y", "p", "e">>) -> TypeLibCall(funcName, args, line, col)
    [] libName = W(<<"a", "r", "r", "a", "y">>) ->
         ArrayLibCall(funcName, args, line, col, parenLine, parenCol)
    [] libName = W(<<"c", "o", "n", "d">>) ->
         CondLibCall(funcName, args, line, col, parenLine, parenCol)
    [] libName = W(<<"s", "t", "r", "i", "n", "g">>) ->
         StringLibCall(funcName, args, line, col, parenLine, parenCol)
    [] OTHER -> LR(Null, Err("unmodelled", "library outside the model", libName, line, col))

(***************************************************************************)
(* Evaluation.  Eval yields the value, the error and the trace: the paths   *)
(* of the nodes whose Eval was invoked, in the order of invocation.  A path *)
(* is the list of child indices from the root.  ord is the order in which   *)
(* this run's range over a Go map visits the keys.                          *)
(***************************************************************************)
ER(val, err, trace) == [val |-> val, err |-> err, trace |-> trace]

\* Expression.Pos: a member access stands where its target stands.
RECURSIVE Pos(_)
Pos(e) ==
  IF e.n = "MemberAccess" THEN Pos(e.target) ELSE [line |-> e.line, col |-> e.col]

\* The keys of a map in the order ord visits them.
RangeOrder(ks, ord) == SelectSeq(ord, LAMBDA k : k \in ks)

\* The position of a field's expression among the children of its literal.
FieldIndex(fields, key) ==
  CHOOSE i \in 1..Cardinality(DOMAIN fields) : SortedKeys(DOMAIN fields)[i] = key

RECURSIVE EvalListAll(_, _, _, _, _)
RECURSIVE Eval(_, _, _, _), EvalList(_, _, _, _, _), EvalParts(_, _, _, _, _, _, _),
          EvalFields(_, _, _, _, _, _, _)

\* UnaryExpr.Eval
EvalUnary(u, c, ord, path) ==
  LET r == Eval(u.expr, c, ord, Append(path, 1))
      tr == <<path>> \o r.trace
      num == ToFloat(r.val)
  IN IF r.err # NoErr THEN ER(Null, r.err, tr)
     ELSE IF u.op = TokenMinus
       THEN IF ~num.ok
              THEN ER(Null, NewSemanticError("unary '-' operator requires a numeric operand",
                                             <<>>, u.line, u.col), tr)
            ELSE IF IsInt(r.val) THEN ER(Int64OfFloat(0 - num.f), NoErr, tr)
            ELSE ER(FloatVal(0 - num.f), NoErr, tr)
     ELSE IF u.op = TokenNot
       THEN IF r.val.t # "Bool"
              THEN ER(Null, NewSemanticError("NOT operator requires a boolean operand",
                                             <<>>, u.line, u.col), tr)
              ELSE ER(BoolVal(~r.val.b), NoErr, tr)
     ELSE ER(Null, NewUnknownOperatorError("unknown unary operator", <<>>, u.line, u.col), tr)

\* A variant of the AND and OR cases that evaluates both operands before it
\* looks at the left one.
EvalLogicalEager(b, c, ord, path, stop, msg) ==
  LET bad == NewSemanticError(msg, <<>>, b.line, b.col)
      both(l, r) ==
        IF l.err # NoErr THEN ER(Null, l.err, <<path>> \o l.trace \o r.trace)
        ELSE IF l.val.t # "Bool" THEN ER(Null, bad, <<path>> \o l.trace \o r.trace)
        ELSE IF l.val.b = stop THEN ER(BoolVal(stop), NoErr, <<path>> \o l.trace \o r.trace)
        ELSE IF r.err # NoErr THEN ER(Null, r.err, <<path>> \o l.trace \o r.trace)
        ELSE IF r.val.t # "Bool" THEN ER(Null, bad, <<path>> \o l.trace \o r.trace)
        ELSE ER(BoolVal(r.val.b), NoErr, <<path>> \o l.trace \o r.trace)
  IN both(Eval(b.left, c, ord, Append(path, 1)), Eval(b.right, c, ord, Append(path, 2)))

\* The AND and OR cases of BinaryExpr.Eval: stop is the left value that
\* decides the result.
EvalLogical(b, c, ord, path, stop, msg) ==
  LET l == Eval(b.left, c, ord, Append(path, 1))
      r == Eval(b.right, c, ord, Append(path, 2))
      tl == <<path>> \o l.trace
      tr == tl \o r.trace
      bad == NewSemanticError(msg, <<>>, b.line, b.col)
  IN IF l.err # NoErr THEN ER(Null, l.err, tl)
     ELSE IF l.val.t # "Bool" THEN ER(Null, bad, tl)
     ELSE IF l.val.b = stop THEN ER(BoolVal(stop), NoErr, tl)
     ELSE IF r.err # NoErr THEN ER(Null, r.err, tr)
     ELSE IF r.val.t # "Bool" THEN ER(Null, bad, tr)
     ELSE ER(BoolVal(r.val.b), NoErr, tr)

\* The arithmetic cases of BinaryExpr.Eval on the grid of tenths.
Arith(op, ln, rn) ==
  CASE op = TokenPlus -> ln + rn
    [] op = TokenMinus -> ln - rn
    [] op = TokenMultiply -> TruncDiv(ln * rn, FloatScale)
    [] op = TokenDivide -> TruncDiv(ln * FloatScale, rn)

NonNumericMsg(op) ==
  CASE op = TokenPlus -> "'+' operator used on non-numeric type"
    [] op = TokenMinus -> "'-' operator used on non-numeric type"
    [] op = TokenMultiply -> "'*' operator used on non-numeric type"
    [] op = TokenDivide -> "'/' operator used on non-numeric type"

\* BinaryExpr.Eval
EvalBinary(b, c, ord, path) ==
  IF b.op = TokenAnd
    THEN EvalLogical(b, c, ord, path, FALSE, "AND operator requires boolean operand")
  ELSE IF b.op = TokenOr
    THEN EvalLogical(b, c, ord, path, TRUE, "OR operator requires boolean operand")
  ELSE
    LET l == Eval(b.left, c, ord, Append(path, 1))
        r == Eval(b.right, c, ord, Append(path, 2))
        tl == <<path>> \o l.trace
        tr == tl \o r.trace
        ln == ToFloat(l.val)
        rn == ToFloat(r.val)
        cmp(op) == LET k == Compare(l.val, r.val, op, b.line, b.col)
                   IN IF k.err # NoErr THEN ER(BoolVal(FALSE), k.err, tr)
                      ELSE ER(BoolVal(k.b), NoErr, tr)
    IN IF l.err # NoErr THEN ER(Null, l.err, tl)
       ELSE IF r.err # NoErr THEN ER(Null, r.err, tr)
       ELSE IF b.op \in {TokenPlus, TokenMinus, TokenMultiply, TokenDivide}
         THEN IF ~ln.ok \/ ~rn.ok
                THEN ER(Null, NewSemanticError(NonNumericMsg(b.op), <<>>, b.line, b.col), tr)
              ELSE IF b.op = TokenDivide /\ rn.f = 0
                THEN ER(Null, NewDivideByZeroError("division by zero", <<>>, b.line, b.col), tr)
              ELSE IF IsInt(l.val) # IsInt(r.val)
                THEN ER(Null, NewSemanticError("Mixed numeric types require explicit conversion",
                                               <<>>, b.line, b.col), tr)
              ELSE IF IsInt(l.val) THEN ER(Int64OfFloat(Arith(b.op, ln.f, rn.f)), NoErr, tr)
              ELSE ER(FloatVal(Arith(b.op, ln.f, rn.f)), NoErr, tr)
       ELSE IF b.op = TokenLt THEN cmp("<")
       ELSE IF b.op = TokenGt THEN cmp(">")
       ELSE IF b.op = TokenLte THEN cmp("<=")
       ELSE IF b.op = TokenGte THEN cmp(">=")
       ELSE IF b.op = TokenEq THEN ER(BoolVal(Equals(l.val, r.val)), NoErr, tr)
       ELSE IF b.op = TokenNeq THEN ER(BoolVal(~Equals(l.val, r.val)), NoErr, tr)
       ELSE ER(Null, NewUnknownOperatorError("unknown binary operator", <<>>, b.line, b.col), tr)

\* ContextExpr.Eval: the field the identifier names, or the context itself.
EvalContext(e, c, path) ==
  IF e.ident.n # "nil"
    THEN IF e.ident.name \in DOMAIN c
           THEN ER(c[e.ident.name], NoErr, <<path>>)
           ELSE ER(Null, NewReferenceError("field '%s' not found", e.ident.name,
                                           e.ident.line, e.ident.col), <<path>>)
    ELSE ER(ObjVal(c), NoErr, <<path>>)

\* The loop of MemberAccessExpr.Eval from part k on.
EvalParts(val, parts, k, c, ord, path, trace) ==
  IF k > Len(parts) THEN ER(val, NoErr, trace)
  ELSE
    LET part == parts[k]
        obj == ConvertToStringMap(val)
        arr == ConvertToInterfaceSlice(val)
    IN IF val.t = "Null" /\ part.optional THEN ER(Null, NoErr, trace)
       ELSE IF part.isIndex
         THEN LET ix == Eval(part.expr, c, ord, Append(path, k))
                  tr == trace \o ix.trace
                  key == IF ix.val.t = "Str" THEN ix.val.s ELSE Format(ix.val)
                  idx == ToInt(ix.val)
              IN IF ix.err # NoErr THEN ER(Null, ix.err, tr)
                 ELSE IF obj.ok
                   THEN IF key \in DOMAIN obj.obj
                          THEN EvalParts(obj.obj[key], parts, k + 1, c, ord, path, tr)
                        ELSE IF part.optional THEN ER(Null, NoErr, tr)
                        ELSE ER(Null, NewReferenceError("field '%s' not found", key,
                                                        part.line, part.col), tr)
                 ELSE IF arr.ok
                   THEN IF ~idx.ok
                          THEN ER(Null, NewTypeError("array index must be numeric", <<>>,
                                                     part.line, part.col), tr)
                        ELSE IF idx.i < 0 \/ idx.i >= Len(arr.arr)
                          THEN IF part.optional THEN ER(Null, NoErr, tr)
                               ELSE ER(Null, NewArrayOutOfBoundsError("array index out of bounds",
                                                                      <<>>, part.line, part.col), tr)
                        ELSE EvalParts(arr.arr[idx.i + 1], parts, k + 1, c, ord, path, tr)
                 ELSE ER(Null, NewTypeError("target is not an object or array", <<>>,
                                            part.line, part.col), tr)
       ELSE IF ~obj.ok
         THEN ER(Null, NewTypeError("dot access on non-object", <<>>, part.line, part.col), trace)
       ELSE IF part.key \in DOMAIN obj.obj
         THEN EvalParts(obj.obj[part.key], parts, k + 1, c, ord, path, trace)
       ELSE IF part.optional THEN ER(Null, NoErr, trace)
       ELSE ER(Null, NewReferenceError("field '%s' not found", part.key,
                                       part.line, part.col), trace)

\* MemberAccessExpr.Eval
EvalMemberAccess(m, c, ord, path) ==
  LET t == Eval(m.target, c, ord, Append(path, 0))
      tr == <<path>> \o t.trace
  IN IF t.err # NoErr THEN ER(Null, t.err, tr)
     ELSE EvalParts(t.val, m.parts, 1, c, ord, path, tr)

\* Evaluating every expression i.. of a list, whatever the errors, and
\* returning the last error met.
EvalListAll(es, i, c, ord, path) ==
  IF i > Len(es) THEN ER(<<>>, NoErr, <<>>)
  ELSE LET r == Eval(es[i], c, ord, Append(path, i))
           rest == EvalListAll(es, i + 1, c, ord, path)
       IN IF rest.err # NoErr THEN ER(<<>>, rest.err, r.trace \o rest.trace)
          ELSE IF r.err # NoErr THEN ER(<<>>, r.err, r.trace \o rest.trace)
          ELSE ER(<<Arg(r.val, Pos(es[i]).line, Pos(es[i]).col)>> \o rest.val, NoErr,
                  r.trace \o rest.trace)

\* Evaluating expressions i.. of a list in order, stopping at the first error;
\* the value is the list of param.Arg of those evaluated.
EvalList(es, i, c, ord, path) ==
  IF i > Len(es) THEN ER(<<>>, NoErr, <<>>)
  ELSE LET r == Eval(es[i], c, ord, Append(path, i))
           rest == EvalList(es, i + 1, c, ord, path)
       IN IF r.err # NoErr THEN ER(<<>>, r.err, r.trace)
          ELSE IF rest.err # NoErr THEN ER(<<>>, rest.err, r.trace \o rest.trace)
          ELSE ER(<<Arg(r.val, Pos(es[i]).line, Pos(es[i]).col)>> \o rest.val, NoErr,
                  r.trace \o rest.trace)

\* FunctionCallExpr.Eval
EvalFunctionCall(f, c, ord, path) ==
  IF Len(f.namespace) < 2
    THEN ER(Null, NewParameterError("function call missing namespace", <<>>, f.line, f.col),
            <<path>>)
  ELSE IF ~GetLibrary(f.namespace[1])
    THEN ER(Null, NewReferenceError("library '%s' not found", f.namespace[1], f.line, f.col),
            <<path>>)
  ELSE LET called(r, tr) == ER(r.val, r.err, tr)
           call(args) ==
             IF args.err # NoErr THEN ER(Null, args.err, <<path>> \o args.trace)
             ELSE called(LibraryCall(f.namespace[1], f.namespace[2], args.val,
                                     f.line, f.col, f.parenLine, f.parenCol),
                         <<path>> \o args.trace)
       IN call(EvalList(f.args, 1, c, ord, path))

\* ArrayLiteralExpr.Eval
EvalArrayLiteral(a, c, ord, path) ==
  LET r == EvalList(a.elements, 1, c, ord, path)
      tr == <<path>> \o r.trace
  IN IF r.err # NoErr THEN ER(Null, r.err, tr)
     ELSE ER(ArrVal([i \in 1..Len(r.val) |-> r.val[i].value]), NoErr, tr)

\* The range loop of ObjectLiteralExpr.Eval over the keys still to visit.
EvalFields(fields, keys, result, c, ord, path, trace) ==
  IF keys = <<>> THEN ER(ObjVal(result), NoErr, trace)
  ELSE LET key == keys[1]
           r == Eval(fields[key], c, ord, Append(path, FieldIndex(fields, key)))
       IN IF r.err # NoErr THEN ER(Null, r.err, trace \o r.trace)
          ELSE EvalFields(fields, Tail(keys), (key :> r.val) @@ result, c, ord, path,
                          trace \o r.trace)

\* ObjectLiteralExpr.Eval: the range over the map Fields visits the keys in an
\* order the language leaves open.
EvalObjectLiteral(o, c, ord, path) ==
  EvalFields(o.fields, RangeOrder(DOMAIN o.fields, ord), <<>>, c, ord, path, <<path>>)

\* Expression.Eval, dispatched on the node's type.
Eval(e, c, ord, path) ==
  CASE e.n = "Literal" -> ER(e.value, NoErr, <<path>>)
    [] e.n = "Identifier" ->
         ER(Null, NewUnknownIdentifierError("Bare identifier '%s' is not allowed", e.name,
                                            e.line, e.col), <<path>>)
    [] e.n = "Context" -> EvalContext(e, c, path)
    [] e.n = "Unary" -> EvalUnary(e, c, ord, path)
    [] e.n = "Binary" -> EvalBinary(e, c, ord, path)
    [] e.n = "MemberAccess" -> EvalMemberAccess(e, c, ord, path)
    [] e.n = "FunctionCall" -> EvalFunctionCall(e, c, ord, path)
    [] e.n = "ArrayLiteral" -> EvalArrayLiteral(e, c, ord, path)
    [] e.n = "ObjectLiteral" -> EvalObjectLiteral(e, c, ord, path)

(***************************************************************************)
(* Signing.  SHA-256 and RSA PKCS#1 v1.5 are taken as ideal: a digest       *)
(* stands for exactly one message, and under a key a digest has exactly one *)
(* valid signature.  A signature is SigSize symbols; symbol i is byte i of  *)
(* the valid signature shifted by delta (mod 256), so delta = 0 everywhere  *)
(* is the valid signature itself.                                           *)
(***************************************************************************)
NumKeys == 2
SigSize == 3

\* What a change adds to a byte, modulo 256.
Deltas == {1, 255}

\* A key pair is named by a number: the private key k and the public key k.
Keys == 1..NumKeys

\* sha256.Sum256
Sum256(data) == [sha256 |-> data]

\* rsa.SignPKCS1v15
SignPKCS1v15(priv, hash) ==
  [i \in 1..SigSize |-> [sig |-> i, key |-> priv, hash |-> hash, delta |-> 0]]

\* A verification that accepts every signature.
VerifyAnything(pub, hash, signature) == TRUE

\* rsa.VerifyPKCS1v15: TRUE when the signature verifies.
VerifyPKCS1v15(pub, hash, signature) == signature = SignPKCS1v15(pub, hash)

\* binary.Write(&buf, binary.LittleEndian, uint32)
PutUint32(n) == <<n % 256, (n \div 256) % 256, (n \div 65536) % 256, (n \div 16777216) % 256>>

\* Lexer.ExportTokensSigned
ExportTokensSigned(l, priv) ==
  LET sign(tokenData) ==
        BytesOut(HeaderMagic \o PutUint32(Len(tokenData)) \o tokenData
                   \o SignPKCS1v15(priv, Sum256(tokenData)), NoErr)
      signed(t) == IF t.err # NoErr THEN BytesOut(<<>>, t.err) ELSE sign(t.bytes)
  IN signed(ExportTokens(l))

ReaderOut(reader, err) == [reader |-> reader, err |-> err]

\* bytecode.NewByteCodeReaderFromSignedData; the length test compares the four
\* length bytes with those of the only token-data length the file's size allows.
NewByteCodeReaderFromSignedData(data, pub) ==
  LET sigSize == SigSize
      pos == Len(HeaderMagic)
      tokenDataLength == SubSeq(data, pos + 1, pos + 4)
      fits == Len(data) - Len(HeaderMagic) - 4 - sigSize
      tokenData == SubSeq(data, pos + 5, pos + 4 + fits)
      signature == SubSeq(data, pos + 5 + fits, pos + 4 + fits + sigSize)
      hash == Sum256(tokenData)
  IN IF Len(data) < Len(HeaderMagic) + 4 + sigSize
       THEN ReaderOut(Nil, Errorf("data too short to contain valid signed tokens", <<>>))
     ELSE IF SubSeq(data, 1, Len(HeaderMagic)) # HeaderMagic
       THEN ReaderOut(Nil, Errorf("invalid header magic; expected %s", HeaderMagic))
     ELSE IF tokenDataLength # PutUint32(fits)
       THEN ReaderOut(Nil, Errorf("data length mismatch: expected %d bytes, got %d",
                                  tokenDataLength \o <<Len(data)>>))
     ELSE IF ~VerifyPKCS1v15(pub, hash, signature)
       THEN ReaderOut(Nil, Errorf("invalid signature: %v", <<>>))
     ELSE ReaderOut(NewByteCodeReader(tokenData), NoErr)

(***************************************************************************)
(* Commands: compile and exec of the command line, on one expression text   *)
(* and one context.                                                         *)
(***************************************************************************)
None == [stage |-> "none"]

\* How a run ended: the stage it reached, that stage's error, the AST and the
\* parser's current token after ParseExpression, and Eval's value and trace.
Run(stage, err, e, cur, val, trace) ==
  [stage |-> stage, err |-> err, ast |-> e, cur |-> cur, val |-> val, trace |-> trace]

\* The keys of the object literals of an expression.
RECURSIVE ObjectKeys(_)
ObjectKeys(e) ==
  CASE e.n = "Unary" -> ObjectKeys(e.expr)
    [] e.n = "Binary" -> ObjectKeys(e.left) \cup ObjectKeys(e.right)
    [] e.n = "Context" -> IF e.subscript.n = "nil" THEN {} ELSE ObjectKeys(e.subscript)
    [] e.n = "MemberAccess" ->
         ObjectKeys(e.target)
           \cup UNION {IF e.parts[k].isIndex THEN ObjectKeys(e.parts[k].expr) ELSE {} :
                         k \in 1..Len(e.parts)}
    [] e.n = "FunctionCall" -> UNION {ObjectKeys(e.args[i]) : i \in 1..Len(e.args)}
    [] e.n = "ArrayLiteral" -> UNION {ObjectKeys(e.elements[i]) : i \in 1..Len(e.elements)}
    [] e.n = "ObjectLiteral" ->
         DOMAIN e.fields \cup UNION {ObjectKeys(e.fields[k]) : k \in DOMAIN e.fields}
    [] OTHER -> {}

\* The orders in which a range over a map with these keys can visit them.
Orders(ks) ==
  {o \in [1..Cardinality(ks) -> ks] : \A i, j \in 1..Cardinality(ks) : o[i] = o[j] => i = j}

\* runExecCmd from the token stream up to the evaluation: NewParser and
\* ParseExpression.
ExecParse(ts) ==
  LET parsed(r) ==
        IF r.err # NoErr THEN Run("ParseExpression", r.err, Nil, r.p.cur, Null, <<>>)
        ELSE Run("Eval", NoErr, r.e, r.p.cur, Null, <<>>)
      parse(np) ==
        IF np.err # NoErr THEN Run("NewParser", np.err, Nil, ZeroToken, Null, <<>>)
        ELSE parsed(ParseExpression(np.p))
  IN parse(NewParser(ts))

\* runExecCmd from the parsed expression on: Eval with the context.
ExecEval(run, c, ord) ==
  LET evaluated(e) == [run EXCEPT !.err = e.err, !.val = e.val, !.trace = e.trace]
  IN IF run.stage # "Eval" THEN run ELSE evaluated(Eval(run.ast, c, ord, <<>>))

\* runExecCmd from the token stream on: NewParser, ParseExpression, Eval.
Exec(ts, c, ord) == ExecEval(ExecParse(ts), c, ord)

\* The outcomes of runExecCmd on a token stream, one for each order the maps
\* of the expression can be ranged over.
ExecOutcomes(ts, c) ==
  LET outcomes(run) ==
        {ExecEval(run, c, ord) :
           ord \in Orders(IF run.stage = "Eval" THEN ObjectKeys(run.ast) ELSE {})}
  IN outcomes(ExecParse(ts))

\* The text with every '?' left out.
Plain(text) == SelectSeq(text, LAMBDA b : b # Ord["?"])

\* exec -expr
ExecExpr ==
  /\ res' \in ExecOutcomes(LexerStream(NewLexer(src)), ctx)
  /\ UNCHANGED <<src, ctx, plainRes, bc, res2, signedData, tampered, readRes, heap, regs,
               shared, evals, suite, lex, division>>

\* exec -expr on the text without '?'
ExecPlain ==
  /\ plainRes = None
  /\ plainRes' \in ExecOutcomes(LexerStream(NewLexer(Plain(src))), ctx)
  /\ UNCHANGED <<src, ctx, res, bc, res2, signedData, tampered, readRes, heap, regs,
               shared, evals, suite, lex, division>>

\* compile -expr -out
Compile ==
  /\ bc = None
  /\ bc' = ExportTokens(NewLexer(src))
  /\ UNCHANGED <<src, ctx, res, plainRes, res2, signedData, tampered, readRes, heap, regs,
               shared, evals, suite, lex, division>>

\* exec -in on the file compile wrote
ExecFile ==
  /\ bc # None
  /\ bc.err = NoErr
  /\ res2' \in ExecOutcomes(ReaderStream(NewByteCodeReader(bc.bytes)), ctx)
  /\ UNCHANGED <<src, ctx, res, plainRes, bc, signedData, tampered, readRes, heap, regs,
               shared, evals, suite, lex, division>>

\* compile -expr -out -signed -private: the output of ExportTokensSigned
\* under the private key, which is the file's content when there is no error.
CompileSigned ==
  /\ signedData = None
  /\ \E priv \in Keys :
       signedData' = [out |-> ExportTokensSigned(NewLexer(src), priv), priv |-> priv]
  /\ UNCHANGED <<src, ctx, res, plainRes, bc, res2, tampered, readRes, heap, regs,
               shared, evals, suite, lex, division>>

\* The file with d added to its byte i, which is a symbol of the signature
\* when it is among the last SigSize.
Changed(data, i, d) ==
  IF i > Len(data) - SigSize
    THEN [data EXCEPT ![i] = [@ EXCEPT !.delta = d]]
    ELSE [data EXCEPT ![i] = (@ + d) % 256]

\* The file is rewritten with exactly one of its bytes changed, before it is
\* read; tampered is the place of the byte.
Tamper ==
  /\ signedData # None
  /\ signedData.out.err = NoErr
  /\ tampered = 0
  /\ readRes = None
  /\ \E i \in 1..Len(signedData.out.bytes), d \in Deltas :
       /\ tampered' = i
       /\ signedData' = [signedData EXCEPT !.out.bytes = Changed(@, i, d)]
  /\ UNCHANGED <<src, ctx, res, plainRes, bc, res2, readRes, heap, regs,
               shared, evals, suite, lex, division>>

\* exec -in -signed -public: NewByteCodeReaderFromSignedData on the file under
\* the public key, then NewParser, ParseExpression and Eval on its reader.
ExecSigned ==
  /\ signedData # None
  /\ signedData.out.err = NoErr
  /\ \E pub \in Keys :
       LET read(r) ==
             /\ readRes' = [pub |-> pub, reader |-> r.reader, err |-> r.err]
             /\ IF r.err # NoErr
                  THEN res2' = Run("NewByteCodeReaderFromSignedData", r.err, Nil, ZeroToken,
                                   Null, <<>>)
                  ELSE res2' \in ExecOutcomes(ReaderStream(r.reader), ctx)
       IN read(NewByteCodeReaderFromSignedData(signedData.out.bytes, pub))
  /\ UNCHANGED <<src, ctx, res, plainRes, bc, signedData, tampered, heap, regs,
               shared, evals, suite, lex, division>>

(***************************************************************************)
(* Slices and maps as Go holds them: heap[a] is the slice or map at address *)
(* a, and a value is a scalar or a reference to an address.  regs are the   *)
(* values the operations of an evaluation have returned so far; an          *)
(* operation takes its operands from the context and from regs.             *)
(***************************************************************************)
\* The number of operations of an evaluation.
MaxRegs == 3

Ref(a) == [t |-> "Ref", a |-> a]
Slice(elems) == [k |-> "slice", elems |-> elems]
Map(fields) == [k |-> "map", fields |-> fields]

\* What an operation leaves: the heap and the value it returns.
HR(h, val) == [heap |-> h, val |-> val]

\* make([]interface{}, ...) or a first append to a nil slice: a new address.
Alloc(h, object) == HR(Append(h, object), Ref(Len(h) + 1))

IsSlice(h, v) == v.t = "Ref" /\ h[v.a].k = "slice"
IsMap(h, v) == v.t = "Ref" /\ h[v.a].k = "map"

\* array.sort that sorts the slice it was given.
ArraySortInPlace(h, v, ascending) ==
  LET arr == h[v.a].elems
  IN IF arr = <<>> THEN HR(h, v)
     ELSE HR([h EXCEPT ![v.a] = Slice(SliceStable(arr, ToFloat(arr[1]).ok, ascending))], v)

\* array.sort on a slice that ConvertToInterfaceSlice returned as it is: the
\* empty slice is returned itself, any other is copied and the copy sorted.
ArraySort(h, v, ascending) ==
  LET arr == h[v.a].elems
  IN IF arr = <<>> THEN HR(h, v)
     ELSE Alloc(h, Slice(SliceStable(arr, ToFloat(arr[1]).ok, ascending)))

\* array.filter with one argument: the elements that are not nil, appended to
\* a nil slice.
ArrayFilter(h, v) == Alloc(h, Slice(SelectSeq(h[v.a].elems, LAMBDA e : e.t # "Null")))

\* The elements array.flatten appends: those of a slice, or the element.
RECURSIVE FlattenRefs(_, _)
FlattenRefs(h, arr) ==
  IF arr = <<>> THEN <<>>
  ELSE (IF IsSlice(h, arr[1]) THEN h[arr[1].a].elems ELSE <<arr[1]>>)
         \o FlattenRefs(h, Tail(arr))

\* array.flatten
ArrayFlatten(h, v) == Alloc(h, Slice(FlattenRefs(h, h[v.a].elems)))

\* array.extract with two arguments: the field of every element that is a map
\* holding it, nil for the others.
ArrayExtract(h, v, subfield) ==
  LET arr == h[v.a].elems
  IN Alloc(h, Slice([i \in 1..Len(arr) |->
                       IF IsMap(h, arr[i]) /\ subfield \in DOMAIN h[arr[i].a].fields
                         THEN h[arr[i].a].fields[subfield]
                         ELSE Null]))

\* type.intArray on numbers: ToInt of every element in a new slice.
TypeIntArray(h, v) ==
  LET arr == h[v.a].elems
  IN Alloc(h, Slice([i \in 1..Len(arr) |-> IntVal(ToInt(arr[i]).i)]))

\* The values an operation can take: the context and what was returned.
Operands == {Ref(1)} \cup {regs[i] : i \in 1..Len(regs)}

\* TRUE when array.sort can compare the elements: all numbers or all strings.
Comparable(arr) ==
  \/ \A i \in 1..Len(arr) : ToFloat(arr[i]).ok
  \/ \A i \in 1..Len(arr) : arr[i].t = "Str"

\* An operation returned: the heap it leaves, its value appended to regs.
Returned(r) ==
  /\ heap' = r.heap
  /\ regs' = Append(regs, r.val)
  /\ UNCHANGED <<src, ctx, res, plainRes, bc, res2, signedData, tampered, readRes,
               shared, evals, suite, lex, division>>

\* MemberAccessExpr.Eval: a field of a map or an element of a slice.
EvalMember ==
  /\ Len(regs) < MaxRegs
  /\ \E v \in Operands :
       \/ /\ IsMap(heap, v)
          /\ \E key \in DOMAIN heap[v.a].fields : Returned(HR(heap, heap[v.a].fields[key]))
       \/ /\ IsSlice(heap, v)
          /\ \E i \in 1..Len(heap[v.a].elems) : Returned(HR(heap, heap[v.a].elems[i]))

CallArraySort ==
  /\ Len(regs) < MaxRegs
  /\ \E v \in Operands, ascending \in BOOLEAN :
       /\ IsSlice(heap, v)
       /\ Comparable(heap[v.a].elems)
       /\ Returned(ArraySort(heap, v, ascending))

CallArrayFilter ==
  /\ Len(regs) < MaxRegs
  /\ \E v \in Operands : IsSlice(heap, v) /\ Returned(ArrayFilter(heap, v))

CallArrayFlatten ==
  /\ Len(regs) < MaxRegs
  /\ \E v \in Operands : IsSlice(heap, v) /\ Returned(ArrayFlatten(heap, v))

CallArrayExtract ==
  /\ Len(regs) < MaxRegs
  /\ \E v \in Operands :
       IsSlice(heap, v) /\ Returned(ArrayExtract(heap, v, W(<<"k">>)))

CallTypeIntArray ==
  /\ Len(regs) < MaxRegs
  /\ \E v \in Operands :
       /\ IsSlice(heap, v)
       /\ \A i \in 1..Len(heap[v.a].elems) : ToInt(heap[v.a].elems[i]).ok
       /\ Returned(TypeIntArray(heap, v))

(***************************************************************************)
(* Evaluations of one AST running side by side.  An evaluation is a stack   *)
(* of calls of Eval; a call holds the path of its node and the values of    *)
(* the operands it has evaluated (leftVal, rightVal, args in the code).  A  *)
(* step of an evaluation is one call going as far as its next call of Eval  *)
(* or its return.  Nodes without operand expressions of their own in this   *)
(* model return in one step.                                                *)
(***************************************************************************)
\* The number of evaluations that share the AST.
NumThreads == 2

\* The operand expressions Eval of a node evaluates one after the other.
OperandExprs(e) ==
  CASE e.n = "Unary" -> <<e.expr>>
    [] e.n = "Binary" -> <<e.left, e.right>>
    [] e.n = "FunctionCall" -> e.args
    [] OTHER -> <<>>

\* The node with its operand expressions replaced.
WithOperandExprs(e, es) ==
  CASE e.n = "Unary" -> [e EXCEPT !.expr = es[1]]
    [] e.n = "Binary" -> [e EXCEPT !.left = es[1], !.right = es[2]]
    [] e.n = "FunctionCall" -> [e EXCEPT !.args = es]
    [] OTHER -> e

\* The node of an expression at a path.
RECURSIVE NodeAt(_, _)
NodeAt(e, path) ==
  IF path = <<>> THEN e ELSE NodeAt(OperandExprs(e)[path[1]], Tail(path))

\* The expression with the node at a path replaced.
RECURSIVE ReplaceAt(_, _, _)
ReplaceAt(e, path, node) ==
  IF path = <<>> THEN node
  ELSE WithOperandExprs(e, [OperandExprs(e) EXCEPT
                              ![path[1]] = ReplaceAt(@, Tail(path), node)])

\* The node with the operands already evaluated standing as their values.
Evaluated(e, vals) ==
  WithOperandExprs(e, [i \in 1..Len(OperandExprs(e)) |->
                         IF i <= Len(vals)
                           THEN LiteralExpr(vals[i], Pos(OperandExprs(e)[i]).line,
                                            Pos(OperandExprs(e)[i]).col)
                           ELSE OperandExprs(e)[i]])

\* TRUE when Eval of the node evaluates no further operand: it has them all,
\* AND or OR is decided by its left operand, or a call has no library.
Settled(e, vals) ==
  \/ Len(vals) = Len(OperandExprs(e))
  \/ /\ e.n = "Binary"
     /\ e.op \in {TokenAnd, TokenOr}
     /\ Len(vals) = 1
     /\ (vals[1].t # "Bool" \/ vals[1].b = (e.op = TokenOr))
  \/ /\ e.n = "FunctionCall"
     /\ (Len(e.namespace) < 2 \/ ~GetLibrary(e.namespace[1]))

\* The operand values a node holds, for an Eval that keeps them in the node.
Held(node) == IF "vals" \in DOMAIN node THEN node.vals ELSE <<>>

Holding(node, vals) == [vals |-> vals] @@ node

Frame(path, vals) == [path |-> path, vals |-> vals]

Thread(c) ==
  [ctx |-> c, stack |-> <<Frame(<<>>, <<>>)>>, done |-> FALSE, val |-> Null, err |-> NoErr]

\* One step of an evaluation on the shared AST: the evaluation and the AST
\* after it.  The operand values are the locals of the call; with inNode they
\* are fields of the node instead.
StepWith(t, ast, inNode) ==
  LET depth == Len(t.stack)
      f == t.stack[depth]
      node == NodeAt(ast, f.path)
      vals == IF inNode THEN Held(node) ELSE f.vals
      cleared == IF inNode THEN ReplaceAt(ast, f.path, Holding(node, <<>>)) ELSE ast
      deliver(val) ==
        LET up == t.stack[depth - 1]
            parent == NodeAt(cleared, up.path)
        IN IF inNode
             THEN [thread |-> [t EXCEPT !.stack = SubSeq(t.stack, 1, depth - 1)],
                   ast |-> ReplaceAt(cleared, up.path,
                                     Holding(parent, Append(Held(parent), val)))]
             ELSE [thread |-> [t EXCEPT !.stack = Append(SubSeq(t.stack, 1, depth - 2),
                                                         Frame(up.path, Append(up.vals, val)))],
                   ast |-> ast]
      return(r) ==
        IF r.err # NoErr \/ depth = 1
          THEN [thread |-> [t EXCEPT !.stack = <<>>, !.done = TRUE, !.val = r.val,
                                     !.err = r.err],
                ast |-> cleared]
          ELSE deliver(r.val)
  IN IF Settled(node, vals)
       THEN return(Eval(Evaluated(node, vals), t.ctx, <<>>, <<>>))
       ELSE [thread |-> [t EXCEPT !.stack = Append(t.stack,
                                                   Frame(Append(f.path, Len(vals) + 1), <<>>))],
             ast |-> ast]

\* An Eval that keeps the values of its operands in fields of the node.
StepInNode(t, ast) == StepWith(t, ast, TRUE)

\* Expression.Eval as the code has it: the values of the operands are locals.
Step(t, ast) == StepWith(t, ast, FALSE)

\* A step of one of the evaluations that have not returned.
EvalStep ==
  /\ \E i \in 1..Len(evals) :
       /\ ~evals[i].done
       /\ LET stepped(r) ==
                /\ evals' = [evals EXCEPT ![i] = r.thread]
                /\ shared' = [shared EXCEPT !.ast = r.ast]
          IN stepped(Step(evals[i], shared.ast))
  /\ UNCHANGED <<src, ctx, res, plainRes, bc, res2, signedData, tampered, readRes, heap, regs,
                 suite, lex, division>>

(***************************************************************************)
(* The test runner.  A state of RunTests is the suite result it has built,  *)
(* the index of the case its loop is at, and the cases it has run the       *)
(* lexer, the parser and Eval on.  A step is one pass of the loop.          *)
(***************************************************************************)
TestCase(expression, context, expectedError, expectedResult, skip, focus) ==
  [expression |-> expression, context |-> context, expectedError |-> expectedError,
   expectedErrorMessage |-> "", expectedResult |-> expectedResult, skip |-> skip,
   focus |-> focus]

TestResult(testID, tc) ==
  [testId |-> testID, expression |-> tc.expression, status |-> "", actualResult |-> Null,
   actualError |-> NoErr]

\* RunTests before its loop.
TestSuiteResult(testCases, failFast) ==
  [stage |-> "RunTests", cases |-> testCases, failFast |-> failFast, next |-> 1,
   stopped |-> FALSE, ran |-> <<>>, results |-> <<>>, passed |-> 0, failed |-> 0,
   skipped |-> 0, total |-> 0]

\* focusMode: some case is marked as focused.
FocusMode(testCases) == \E i \in 1..Len(testCases) : testCases[i].focus

\* A skip rule under which a focused case runs even when it is marked skip.
NotRunUnlessFocused(tc, focusMode) == IF focusMode THEN ~tc.focus ELSE tc.skip

\* The two skip tests of the loop: not focused under focus mode, or marked skip.
NotRun(tc, focusMode) == (focusMode /\ ~tc.focus) \/ tc.skip

\* strings.ReplaceAll(s, "\n", "\\n")
RECURSIVE EscapeNewlines(_)
EscapeNewlines(bs) ==
  IF bs = <<>> THEN <<>>
  ELSE (IF bs[1] = LF THEN W(<<"\\", "n">>) ELSE <<bs[1]>>) \o EscapeNewlines(Tail(bs))

\* The text the runner compares a non-numeric result by.
ResultText(val) == IF val.t = "Str" THEN EscapeNewlines(val.s) ELSE Format(val)

\* passTest: numbers within 1e-9 of each other, anything else by its text.
PassTest(evalResult, expected) ==
  IF ToFloat(evalResult).ok
    THEN IF ToFloat(expected).ok
           THEN ToFloat(evalResult).f = ToFloat(expected).f
           ELSE Format(evalResult) = Format(expected)
    ELSE ResultText(evalResult) = ResultText(expected)

\* strings.Contains(err.Error(), sub) for the empty text and for the message
\* of the error, which Error() holds.
ContainsMessage(err, sub) == sub = "" \/ sub = err.msg

Recorded(s, result, status) ==
  [s EXCEPT !.results = Append(@, [result EXCEPT !.status = status])]

SkippedCase(s, result) ==
  [Recorded(s, result, "SKIPPED") EXCEPT !.skipped = @ + 1, !.next = @ + 1]

PassedCase(s, result) ==
  [Recorded(s, result, "PASSED") EXCEPT !.passed = @ + 1, !.next = @ + 1]

\* A failed case is counted and recorded once; the loop is left when breaks.
FailedWith(s, result, breaks) ==
  [Recorded(s, result, "FAILED") EXCEPT !.failed = @ + 1,
                                        !.next = IF breaks THEN @ ELSE @ + 1,
                                        !.stopped = breaks]

\* A runner that goes on to the next case whatever failFast says.
FailedCaseGoingOn(s, result) == FailedWith(s, result, FALSE)

\* status FAILED: Failed++, and under failFast append the result and break.
FailedCase(s, result) == FailedWith(s, result, s.failFast)

\* The part of the loop after the skip tests: NewLexer, NewParser,
\* ParseExpression and Eval on the case, then the verdict on the run.
Execute(s, tc, result) ==
  LET verdict(counted, run) ==
        IF run.err # NoErr
          THEN IF tc.expectedError = run.err.kind
                    /\ ContainsMessage(run.err, tc.expectedErrorMessage)
                 THEN PassedCase(counted, [result EXCEPT !.actualError = run.err])
                 ELSE FailedCase(counted, [result EXCEPT !.actualError = run.err])
        ELSE IF tc.expectedError # ""
          THEN FailedCase(counted, [result EXCEPT !.actualResult = run.val])
        ELSE IF PassTest(run.val, tc.expectedResult)
          THEN PassedCase(counted, [result EXCEPT !.actualResult = run.val])
          ELSE FailedCase(counted, [result EXCEPT !.actualResult = run.val])
  IN verdict([s EXCEPT !.total = @ + 1, !.ran = Append(@, result.testId)],
             Exec(LexerStream(NewLexer(tc.expression)), tc.context, <<>>))

\* One pass of the loop of RunTests.
Pass(s) ==
  LET case(tc, result) ==
        IF NotRun(tc, FocusMode(s.cases)) THEN SkippedCase(s, result)
        ELSE Execute(s, tc, result)
  IN case(s.cases[s.next], TestResult(s.next, s.cases[s.next]))

\* TRUE when RunTests has left its loop.
Done(s) == s.stopped \/ s.next > Len(s.cases)

RunCase ==
  /\ suite # None
  /\ ~Done(suite)
  /\ suite' = Pass(suite)
  /\ UNCHANGED <<src, ctx, res, plainRes, bc, res2, signedData, tampered, readRes, heap, regs,
                 shared, evals, lex, division>>

(***************************************************************************)
(* A lexer under repeated calls of NextToken.  The caller keeps calling     *)
(* after an error and after EOF; each call is recorded with the lexer it    *)
(* was made on.                                                             *)
(***************************************************************************)

Calls(input) == [input |-> input, l |-> NewLexer(input), results |-> <<>>]

Called(before, n) == [before |-> before, tok |-> n.tok, err |-> n.err, l |-> n.l]

CallNextToken(x) ==
  LET returned(n) == [x EXCEPT !.l = n.l, !.results = Append(@, Called(x.l, n))]
  IN returned(NextToken(x.l))

\* One call of NextToken; the caller stops ExtraCalls calls after the number
\* of bytes of the input.
ExtraCalls == 2

LexNext ==
  /\ lex # None
  /\ Len(lex.results) < Len(lex.input) + ExtraCalls
  /\ lex' = CallNextToken(lex)
  /\ UNCHANGED <<src, ctx, res, plainRes, bc, res2, signedData, tampered, readRes, heap, regs,
                 shared, evals, suite, division>>

(***************************************************************************)
(* Division of 64-bit integers.  An int64 is kept as a sign and a magnitude *)
(* in bits, the most significant first and without zeros in front, so that  *)
(* the integers beyond the mantissa of a float64 are among the operands.    *)
(* A float64 that holds an integer is kept in the same way.                 *)
(***************************************************************************)

\* The bits of the mantissa of a float64, and of the magnitude of an int64.
MantissaBits == 53

Int64Bits == 63

Wide(neg, bits) == [neg |-> neg /\ bits # <<>>, bits |-> bits]

Zeros(n) == [i \in 1..n |-> 0]

Ones(n) == [i \in 1..n |-> 1]

\* The bits without the zeros in front.
StripBits(x) ==
  IF \A i \in 1..Len(x) : x[i] = 0 THEN <<>>
  ELSE SubSeq(x, CHOOSE i \in 1..Len(x) : x[i] = 1 /\ \A j \in 1..(i - 1) : x[j] = 0, Len(x))

BitsLess(x, y) ==
  \/ Len(x) < Len(y)
  \/ /\ Len(x) = Len(y)
     /\ \E i \in 1..Len(x) : x[i] < y[i] /\ \A j \in 1..(i - 1) : x[j] = y[j]

\* TRUE when the bits of x from bit i on are a smaller number than those of
\* y, of the same length.
LessFrom(x, y, i) ==
  \E k \in i..Len(x) : x[k] < y[k] /\ \A j \in i..(k - 1) : x[j] = y[j]

\* x - y for x >= y: a bit borrows when the bits behind it are too few.
BitsMinus(x, y) ==
  LET minus(py) ==
        [i \in 1..Len(x) |-> (x[i] + py[i] + (IF LessFrom(x, py, i + 1) THEN 1 ELSE 0)) % 2]
  IN StripBits(minus(Zeros(Len(x) - Len(y)) \o y))

\* x + 1: the last 0 becomes 1 and the ones behind it 0.
BitsInc(x) ==
  LET carried(k) == SubSeq(x, 1, k - 1) \o <<1>> \o Zeros(Len(x) - k)
  IN IF \A i \in 1..Len(x) : x[i] = 1 THEN <<1>> \o Zeros(Len(x))
     ELSE carried(CHOOSE k \in 1..Len(x) : x[k] = 0 /\ \A j \in (k + 1)..Len(x) : x[j] = 1)

\* Long division of x by y # 0 from the left: one bit of x joins the
\* remainder, and the quotient gets a 1 when y can be taken from it.
DivStep(s, bit, y) ==
  LET taken(r2) ==
        IF BitsLess(r2, y) THEN [q |-> Append(s.q, 0), r |-> r2]
        ELSE [q |-> Append(s.q, 1), r |-> BitsMinus(r2, y)]
  IN taken(StripBits(Append(s.r, bit)))

\* Eight steps of the division, from bit i of x on.
DivByte(s, x, i, y) ==
  DivStep(DivStep(DivStep(DivStep(DivStep(DivStep(DivStep(DivStep(
    s, x[i], y), x[i + 1], y), x[i + 2], y), x[i + 3], y), x[i + 4], y), x[i + 5], y),
    x[i + 6], y), x[i + 7], y)

\* The division of x, a whole number of bytes, going on until the quotient
\* has a bit for every bit of x.
RECURSIVE DivLoop(_, _, _)
DivLoop(s, x, y) ==
  IF Len(s.q) = Len(x) THEN s ELSE DivLoop(DivByte(s, x, Len(s.q) + 1, y), x, y)

\* The quotient and the remainder of x by y # 0.
DivMod(x, y) ==
  LET done(s) == [q |-> StripBits(s.q), r |-> s.r]
  IN done(DivLoop([q |-> <<>>, r |-> <<>>], Zeros((8 - (Len(x) % 8)) % 8) \o x, y))

\* Rounding to the nearest number of MantissaBits significant bits, to the
\* even one of two that are as near; inexact says that the number is a
\* little more than the bits x.
RoundToMantissa(x, inexact) ==
  IF Len(x) <= MantissaBits THEN x
  ELSE LET top == SubSeq(x, 1, MantissaBits)
           rest == SubSeq(x, MantissaBits + 1, Len(x))
           beyondHalf == inexact \/ \E i \in 2..Len(rest) : rest[i] = 1
           up == rest[1] = 1 /\ (beyondHalf \/ top[MantissaBits] = 1)
       IN (IF up THEN BitsInc(top) ELSE top) \o Zeros(Len(rest))

\* types.ToFloat on an int64: float64(v), the magnitude rounded.
ToFloat64(bits) == RoundToMantissa(bits, FALSE)

\* ln / rn on float64 and the cut of int64() toward zero: the quotient is
\* taken with enough bits behind the point to round it as the hardware does,
\* rounded, and the bits behind the point are dropped.
QuoTruncated(ln, rn) ==
  LET behind == IF MantissaBits + 2 + Len(rn) > Len(ln)
                  THEN MantissaBits + 2 + Len(rn) - Len(ln) ELSE 0
      cut(m) == IF Len(m) > behind THEN SubSeq(m, 1, Len(m) - behind) ELSE <<>>
      rounded(d) == cut(RoundToMantissa(d.q, d.r # <<>>))
  IN IF ln = <<>> THEN <<>> ELSE rounded(DivMod(ln \o Zeros(behind), rn))

MinInt64 == Wide(TRUE, <<1>> \o Zeros(Int64Bits))

MaxInt64 == Wide(FALSE, Ones(Int64Bits))

\* int64() of a float64 that holds an integer.  The conversion of a value
\* beyond int64 depends on the machine: the smallest int64 on amd64, the
\* largest on arm64.
Int64OfWhole(neg, bits) ==
  IF Len(bits) <= Int64Bits \/ Wide(neg, bits) = MinInt64
    THEN {Wide(neg, bits)}
    ELSE {MinInt64, MaxInt64}

\* BinaryExpr.Eval, case TokenDivide, on two int64: what it may return.
DivideInt64(a, b, line, col) ==
  IF ToFloat64(b.bits) = <<>>
    THEN {LR(Null, NewDivideByZeroError("division by zero", <<>>, line, col))}
    ELSE {LR(v, NoErr) :
            v \in Int64OfWhole(a.neg # b.neg, QuoTruncated(ToFloat64(a.bits), ToFloat64(b.bits)))}

Division(a, b) == [stage |-> "operands", a |-> a, b |-> b]

Divided(d, out) == [stage |-> "Eval", a |-> d.a, b |-> d.b, val |-> out.val, err |-> out.err]

\* The evaluation of a / b at line 1, column 1.
Divide ==
  /\ division # None
  /\ division.stage = "operands"
  /\ division' \in {Divided(division, out) : out \in DivideInt64(division.a, division.b, 1, 1)}
  /\ UNCHANGED <<src, ctx, res, plainRes, bc, res2, signedData, tampered, readRes, heap, regs,
                 shared, evals, suite, lex>>

(***************************************************************************)
(* Inputs                                                                   *)
(***************************************************************************)
\* The words joined by single spaces.
RECURSIVE JoinWords(_)
JoinWords(ws) ==
  IF ws = <<>> THEN <<>>
  ELSE IF Len(ws) = 1 THEN ws[1]
  ELSE ws[1] \o <<Ord[" "]>> \o JoinWords(Tail(ws))

\* The texts of 1..n words of a vocabulary.
Texts(vocabulary, n) ==
  UNION {{JoinWords(ws) : ws \in [1..k -> vocabulary]} : k \in 1..n}

\* The state before any command ran.
Start(texts, contexts) ==
  /\ src \in texts
  /\ ctx \in contexts
  /\ res = None
  /\ plainRes = None
  /\ bc = None
  /\ res2 = None
  /\ signedData = None
  /\ tampered = 0
  /\ readRes = None
  /\ heap = <<>>
  /\ regs = <<>>
  /\ shared = None
  /\ evals = <<>>
  /\ suite = None
  /\ lex = None
  /\ division = None

EmptyContext == <<>>

\* Round trip through the bytecode: literals, a context field, the logical
\* operators in both spellings, and tokens that cannot continue an expression.
MaxWordsRT == 3

WordsRT ==
  { W(<<"t", "r", "u", "e">>), W(<<"n", "u", "l", "l">>), W(<<"1">>), W(<<"$", "a">>),
    W(<<"&", "&">>), W(<<"O", "R">>), W(<<"!">>), W(<<"(">>), W(<<")">>), W(<<"]">>),
    W(<<"=">>) }

ContextsRT == {EmptyContext, W(<<"a">>) :> BoolVal(FALSE)}

InitRT == Start(Texts(WordsRT, MaxWordsRT), ContextsRT)

NextRT == ExecExpr \/ Compile \/ ExecFile

SpecRT == InitRT /\ [][NextRT]_vars

\* Logical expressions: two to MaxOperands operands joined by AND and OR in
\* both spellings; an operand is a boolean, a number or a missing field.
MaxOperands == 3

OperandsLogic ==
  { W(<<"t", "r", "u", "e">>), W(<<"f", "a", "l", "s", "e">>), W(<<"1">>), W(<<"$", "z">>) }

ConnectivesLogic == { W(<<"&", "&">>), W(<<"O", "R">>), W(<<"|", "|">>), W(<<"A", "N", "D">>) }

\* The word lists operand, connective, operand, ... of k operands.
RECURSIVE Alternate(_, _, _)
Alternate(operands, connectives, k) ==
  IF k = 1 THEN {<<o>> : o \in operands}
  ELSE {ws \o <<c, o>> : ws \in Alternate(operands, connectives, k - 1),
                          c \in connectives, o \in operands}

TextsLogic ==
  UNION {{JoinWords(ws) : ws \in Alternate(OperandsLogic, ConnectivesLogic, k)} :
           k \in 2..MaxOperands}

InitLogic == Start(TextsLogic, {EmptyContext})

NextLogic == ExecExpr

SpecLogic == InitLogic /\ [][NextLogic]_vars

\* Member access: a context reference followed by up to MaxParts optional
\* parts, over contexts whose field a is null, an object, an array or a number.
MaxParts == 2

HeadsMember ==
  { W(<<"$", "a">>), W(<<"$", "[", "\"", "a", "\"", "]">>), W(<<"$", "[", "1", "]">>) }

PartsMember ==
  { W(<<"?", ".", "b">>), W(<<"?", ".", "c">>), W(<<"?", "[", "0", "]">>),
    W(<<"?", "[", "1", "]">>), W(<<"?", "[", "\"", "b", "\"", "]">>) }

\* The texts of a head followed by k parts.
RECURSIVE Chains(_, _, _)
Chains(heads, parts, k) ==
  IF k = 0 THEN heads ELSE {t \o q : t \in Chains(heads, parts, k - 1), q \in parts}

TextsMember == UNION {Chains(HeadsMember, PartsMember, k) : k \in 0..MaxParts}

ContextsMember ==
  { W(<<"a">>) :> Null,
    W(<<"a">>) :> ObjVal(W(<<"b">>) :> ArrVal(<<IntVal(7)>>) @@ W(<<"c">>) :> Null),
    W(<<"a">>) :> ArrVal(<<ObjVal(W(<<"b">>) :> IntVal(1))>>),
    W(<<"a">>) :> IntVal(5),
    W(<<"1">>) :> IntVal(7) }

InitMember == Start(TextsMember, ContextsMember)

NextMember == ExecExpr \/ ExecPlain

SpecMember == InitMember /\ [][NextMember]_vars

\* Addition of an integer and a float, bare and through type.float and
\* type.int: the integers 0..MaxArith and the context field i, the floats
\* 0.5..MaxArith.5 and the context field f.
MaxArith == 3

IntsArith == {NatDigits(k) : k \in 0..MaxArith} \cup {W(<<"$", "i">>)}

FloatsArith == {NatDigits(k) \o W(<<".", "5">>) : k \in 0..MaxArith} \cup {W(<<"$", "f">>)}

Call(name, arg) == W(<<"t", "y", "p", "e", ".">>) \o name \o W(<<"(">>) \o arg \o W(<<")">>)

TextsArith ==
  UNION {{ JoinWords(<<x, W(<<"+">>), y>>),
           JoinWords(<<y, W(<<"+">>), x>>),
           JoinWords(<<Call(W(<<"f", "l", "o", "a", "t">>), x), W(<<"+">>), y>>),
           JoinWords(<<x, W(<<"+">>), Call(W(<<"i", "n", "t">>), y)>>) } :
          x \in IntsArith, y \in FloatsArith}

ContextsArith ==
  { W(<<"i">>) :> IntVal(0 - 2) @@ W(<<"f">>) :> FloatVal(0 - 25),
    W(<<"i">>) :> IntVal(40) @@ W(<<"f">>) :> FloatVal(1) }

InitArith == Start(TextsArith, ContextsArith)

NextArith == ExecExpr

SpecArith == InitArith /\ [][NextArith]_vars

\* Signed bytecode: texts of up to MaxWordsSigned words, among them '?',
\* which the lexer accepts and the bytecode has no code for.
MaxWordsSigned == 2

WordsSigned == { W(<<"1">>), W(<<"$", "a">>), W(<<"&", "&">>), W(<<"?">>) }

InitSigned == Start(Texts(WordsSigned, MaxWordsSigned), {W(<<"a">>) :> BoolVal(TRUE)})

NextSigned == CompileSigned \/ Tamper \/ ExecSigned

SpecSigned == InitSigned /\ [][NextSigned]_vars

\* Object literals of one to MaxFields fields; a value is a literal, a
\* context field that can be missing, or a sum that cannot be evaluated.
MaxFields == 2

KeysObject == { W(<<"a">>), W(<<"b">>), W(<<"c">>) }

ValuesObject == { W(<<"1">>), W(<<"$", "x">>), W(<<"$", "y">>), W(<<"1", "+", "t", "r", "u", "e">>) }

FieldsObject == {k \o W(<<":">>) \o v : k \in KeysObject, v \in ValuesObject}

\* The fields joined by commas.
RECURSIVE JoinFields(_)
JoinFields(fs) ==
  IF Len(fs) = 1 THEN fs[1] ELSE fs[1] \o W(<<",">>) \o JoinFields(Tail(fs))

TextsObject ==
  UNION {{W(<<"{">>) \o JoinFields(fs) \o W(<<"}">>) : fs \in [1..k -> FieldsObject]} :
           k \in 1..MaxFields}

ContextsObject == {EmptyContext, W(<<"x">>) :> IntVal(1)}

InitObject == Start(TextsObject, ContextsObject)

NextObject == ExecExpr

SpecObject == InitObject /\ [][NextObject]_vars

\* Contexts on the heap: the context map at address 1 with a field a, a slice
\* of scalars, a field o, a slice of two maps, and a field n, a slice that
\* holds the slice a, a nil and a number.
SlicesHeap ==
  { <<IntVal(3), IntVal(1), IntVal(2)>>,
    <<StrVal(W(<<"b">>)), StrVal(W(<<"a">>))>>,
    <<FloatVal(25), IntVal(2), Null>>,
    <<>> }

HeapOf(elems) ==
  << Map(W(<<"a">>) :> Ref(2) @@ W(<<"o">>) :> Ref(3) @@ W(<<"n">>) :> Ref(6)),
     Slice(elems),
     Slice(<<Ref(4), Ref(5)>>),
     Map(W(<<"k">>) :> IntVal(2)),
     Map(W(<<"k">>) :> IntVal(1)),
     Slice(<<Ref(2), Null, IntVal(0)>>) >>

InitHeap ==
  /\ src = <<>>
  /\ ctx = EmptyContext
  /\ res = None
  /\ plainRes = None
  /\ bc = None
  /\ res2 = None
  /\ signedData = None
  /\ tampered = 0
  /\ readRes = None
  /\ heap \in {HeapOf(elems) : elems \in SlicesHeap}
  /\ regs = <<>>
  /\ shared = None
  /\ evals = <<>>
  /\ suite = None
  /\ lex = None
  /\ division = None

NextHeap ==
  \/ EvalMember
  \/ CallArraySort
  \/ CallArrayFilter
  \/ CallArrayFlatten
  \/ CallArrayExtract
  \/ CallTypeIntArray

SpecHeap == InitHeap /\ [][NextHeap]_vars

\* Evaluations side by side: one text, parsed once, and NumThreads
\* evaluations of its AST, each against a context of its own.
TextsShared ==
  { W(<<"$", "a", " ", "+", " ", "$", "b">>),
    W(<<"$", "a", " ", "&", "&", " ", "$", "b">>),
    W(<<"$", "a", " ", "O", "R", " ", "$", "b">>),
    W(<<"$", "a", " ", "<", " ", "$", "b">>),
    W(<<"N", "O", "T", " ", "$", "a">>),
    W(<<"-", "$", "a", " ", "*", " ", "$", "b">>),
    W(<<"t", "y", "p", "e", ".", "s", "t", "r", "i", "n", "g", "(", "$", "a", ")">>),
    W(<<"c", "o", "n", "d", ".", "i", "f", "E", "x", "p", "r", "(", "$", "a", ",", "$", "b", ",",
        "1", ")">>),
    W(<<"n", "o", ".", "f", "(", "$", "a", ")">>) }

ContextsShared ==
  { W(<<"a">>) :> IntVal(1) @@ W(<<"b">>) :> IntVal(2),
    W(<<"a">>) :> BoolVal(TRUE) @@ W(<<"b">>) :> BoolVal(FALSE),
    W(<<"a">>) :> FloatVal(25) @@ W(<<"b">>) :> FloatVal(5),
    W(<<"b">>) :> IntVal(7) }

\* The AST ParseExpression returns for a text.
Parsed(text) == ExecParse(LexerStream(NewLexer(text))).ast

InitShared ==
  /\ src \in TextsShared
  /\ ctx = EmptyContext
  /\ res = None
  /\ plainRes = None
  /\ bc = None
  /\ res2 = None
  /\ signedData = None
  /\ tampered = 0
  /\ readRes = None
  /\ heap = <<>>
  /\ regs = <<>>
  /\ shared = [ast |-> Parsed(src), env |-> Libraries]
  /\ evals \in {[i \in 1..NumThreads |-> Thread(cs[i])] :
                  cs \in {f \in [1..NumThreads -> ContextsShared] :
                            \A i, j \in 1..NumThreads : f[i] = f[j] => i = j}}
  /\ suite = None
  /\ lex = None
  /\ division = None

NextShared == EvalStep

SpecShared == InitShared /\ [][NextShared]_vars

\* Calls, array literals and binary operators over operands that evaluate
\* and operands that fail: library functions with zero to MaxArgs arguments,
\* among them names no library defines, and the words 'and' and 'Or' between
\* two operands.
MaxArgs == 2

NamesCalls ==
  { W(<<"a", "r", "r", "a", "y", ".", "f", "i", "r", "s", "t">>),
    W(<<"a", "r", "r", "a", "y", ".", "c", "o", "n", "t", "a", "i", "n", "s">>),
    W(<<"a", "r", "r", "a", "y", ".", "s", "o", "r", "t">>),
    W(<<"a", "r", "r", "a", "y", ".", "f", "l", "a", "t", "t", "e", "n">>),
    W(<<"a", "r", "r", "a", "y", ".", "f", "i", "l", "t", "e", "r">>),
    W(<<"a", "r", "r", "a", "y", ".", "n", "o", "p", "e">>),
    W(<<"t", "y", "p", "e", ".", "s", "t", "r", "i", "n", "g">>),
    W(<<"t", "y", "p", "e", ".", "n", "o", "p", "e">>),
    W(<<"c", "o", "n", "d", ".", "i", "f", "E", "x", "p", "r">>),
    W(<<"c", "o", "n", "d", ".", "n", "o", "p", "e">>) }

ArgsCalls == { W(<<"$", "a">>), W(<<"$", "b">>), W(<<"$", "x">>), W(<<"$", "y">>) }

OperatorsCalls ==
  { W(<<"+">>), W(<<"<">>), W(<<"=", "=">>), W(<<"a", "n", "d">>), W(<<"O", "r">>) }

RECURSIVE JoinArgs(_)
JoinArgs(args) ==
  IF Len(args) = 0 THEN <<>>
  ELSE IF Len(args) = 1 THEN args[1]
  ELSE args[1] \o W(<<",">>) \o JoinArgs(Tail(args))

ArgLists == UNION {[1..n -> ArgsCalls] : n \in 0..MaxArgs}

TextsCalls ==
  UNION { {name \o W(<<"(">>) \o JoinArgs(args) \o W(<<")">>) : name \in NamesCalls, args \in ArgLists},
          {W(<<"[">>) \o JoinArgs(args) \o W(<<"]">>) : args \in ArgLists},
          {JoinWords(<<x, op, y>>) : x \in ArgsCalls, y \in ArgsCalls, op \in OperatorsCalls} }

ContextsCalls ==
  { W(<<"a">>) :> ArrVal(<<IntVal(1), IntVal(2)>>) @@ W(<<"b">>) :> IntVal(1) }

InitCalls == Start(TextsCalls, ContextsCalls)

NextCalls == ExecExpr

SpecCalls == InitCalls /\ [][NextCalls]_vars

\* Numeric literals inside and outside the 64-bit ranges, alone and as an
\* operand or an element.
LiteralsNumbers ==
  { W(<<"0">>),
    W(<<"7">>),
    W(<<"2", ".", "5">>),
    W(<<"1", "e", "2">>),
    W(<<"9", "2", "2", "3", "3", "7", "2", "0", "3", "6", "8", "5", "4", "7", "7", "5", "8", "0", "8">>),
    W(<<"9", "9", "9", "9", "9", "9", "9", "9", "9", "9", "9", "9", "9", "9", "9", "9", "9", "9", "9", "9">>),
    W(<<"1", "e", "3", "0", "9">>),
    W(<<"2", ".", "5", "e", "4", "0", "0">>),
    W(<<"9", "e", "9", "9", "9">>) }

TextsNumbers ==
  UNION {{ x,
           JoinWords(<<x, W(<<"+">>), W(<<"1">>)>>),
           JoinWords(<<W(<<"1">>), W(<<"+">>), x>>),
           JoinWords(<<x, W(<<"=", "=">>), W(<<"0">>)>>),
           JoinWords(<<x, W(<<"<">>), W(<<"1">>)>>),
           JoinWords(<<x, W(<<"*">>), W(<<"1", ".", "0">>)>>),
           W(<<"[">>) \o x \o W(<<"]">>) } : x \in LiteralsNumbers}

InitNumbers == Start(TextsNumbers, {EmptyContext})

NextNumbers == ExecExpr

SpecNumbers == InitNumbers /\ [][NextNumbers]_vars

\* Test suites of up to MaxCases cases: cases that pass and cases that fail,
\* by value, by error and by an expression that does not parse, with and
\* without skip and focus; run with failFast on and off.
MaxCases == 3

CasesSuite ==
  {TestCase(W(<<"1", " ", "+", " ", "1">>), EmptyContext, "", IntVal(r), skip, focus) :
     r \in {2, 3}, skip \in BOOLEAN, focus \in BOOLEAN}
    \cup {TestCase(W(<<"1", " ", "/", " ", "0">>), EmptyContext, "DivideByZeroError", Null, FALSE, FALSE),
          TestCase(W(<<"1", " ", "+">>), EmptyContext, "", IntVal(1), FALSE, FALSE)}

InitSuite ==
  /\ src = <<>>
  /\ ctx = EmptyContext
  /\ res = None
  /\ plainRes = None
  /\ bc = None
  /\ res2 = None
  /\ signedData = None
  /\ tampered = 0
  /\ readRes = None
  /\ heap = <<>>
  /\ regs = <<>>
  /\ shared = None
  /\ evals = <<>>
  /\ suite \in {TestSuiteResult(cases, failFast) :
                  cases \in UNION {[1..n -> CasesSuite] : n \in 1..MaxCases},
                  failFast \in BOOLEAN}
  /\ lex = None
  /\ division = None

NextSuite == RunCase

SpecSuite == InitSuite /\ [][NextSuite]_vars

\* Arithmetic on two numbers: each of the four operators between integers
\* and floats, zero among them, as literals and as context fields.
NumbersMixed == { W(<<"0">>), W(<<"2">>), W(<<"0", ".", "0">>), W(<<"2", ".", "5">>), W(<<"$", "i">>), W(<<"$", "f">>) }

OperatorsMixed == { W(<<"+">>), W(<<"-">>), W(<<"*">>), W(<<"/">>) }

TextsMixed == {JoinWords(<<x, op, y>>) : x \in NumbersMixed, y \in NumbersMixed, op \in OperatorsMixed}

ContextsMixed ==
  { W(<<"i">>) :> IntVal(0) @@ W(<<"f">>) :> FloatVal(0),
    W(<<"i">>) :> IntVal(3) @@ W(<<"f">>) :> FloatVal(15) }

InitMixed == Start(TextsMixed, ContextsMixed)

NextMixed == ExecExpr

SpecMixed == InitMixed /\ [][NextMixed]_vars

\* Bracket access on an array: indices inside and outside the array, negative
\* indices and floats, as literals, as a difference and as a context field,
\* with and without '?'.
IndicesIndex ==
  { W(<<"0">>),
    W(<<"1">>),
    W(<<"2">>),
    W(<<"3">>),
    W(<<"-", "1">>),
    W(<<"1", ".", "5">>),
    W(<<"$", "i">>),
    W(<<"0", " ", "-", " ", "1">>) }

TextsIndex ==
  UNION {{ W(<<"$", "a", "[">>) \o x \o W(<<"]">>), W(<<"$", "a", "?", "[">>) \o x \o W(<<"]">>) } : x \in IndicesIndex}

ContextsIndex ==
  { W(<<"a">>) :> ArrVal(a) @@ W(<<"i">>) :> i :
      a \in {<<>>, <<IntVal(10)>>, <<IntVal(10), IntVal(20), IntVal(30)>>},
      i \in {IntVal(0 - 2), FloatVal(0 - 5), IntVal(2), FloatVal(25)} }

InitIndex == Start(TextsIndex, ContextsIndex)

NextIndex == ExecExpr

SpecIndex == InitIndex /\ [][NextIndex]_vars

\* The words of a list of word lists.
RECURSIVE JoinArgsOf(_)
JoinArgsOf(wss) == IF wss = <<>> THEN <<>> ELSE wss[1] \o JoinArgsOf(Tail(wss))

\* Operators of every level between operands with and without unary
\* operators in front, without parentheses: up to MaxLadder operands.
MaxLadder == 3

OperandsLadder == { <<W(<<"1">>)>>, <<W(<<"N", "O", "T">>), W(<<"-">>), W(<<"2">>)>> }

OperatorsLadder == { W(<<"O", "R">>), W(<<"&", "&">>), W(<<"=", "=">>), W(<<"<">>), W(<<"-">>), W(<<"*">>) }

TextsLadder ==
  UNION {{JoinWords(JoinArgsOf(ws)) : ws \in Alternate(OperandsLadder, {<<op>> : op \in OperatorsLadder}, k)} :
           k \in 2..MaxLadder}

InitLadder == Start(TextsLadder, {EmptyContext})

NextLadder == ExecExpr

SpecLadder == InitLadder /\ [][NextLadder]_vars

\* Every text of up to MaxBytes bytes over bytes of each kind the lexer tells
\* apart: a digit, a dot, a letter, '=', '&', a quote, '#', a space, a
\* newline and the zero byte.
MaxBytes == 3

BytesLexer == W(<<"1", ".", "a", "=", "&", "\"", "#", " ">>) \o <<LF, 0>>

TextsLexer == UNION {[1..n -> {BytesLexer[i] : i \in 1..Len(BytesLexer)}] : n \in 0..MaxBytes}

InitLexer ==
  /\ src \in TextsLexer
  /\ ctx = EmptyContext
  /\ res = None
  /\ plainRes = None
  /\ bc = None
  /\ res2 = None
  /\ signedData = None
  /\ tampered = 0
  /\ readRes = None
  /\ heap = <<>>
  /\ regs = <<>>
  /\ shared = None
  /\ evals = <<>>
  /\ suite = None
  /\ lex = Calls(src)
  /\ division = None

NextLexer == LexNext

SpecLexer == InitLexer /\ [][NextLexer]_vars

\* array.sort in both directions on arrays of up to MaxElems elements that
\* are integers, strings or a boolean, in every order.
MaxElems == 3

ElemsSort == { IntVal(1), IntVal(2), StrVal(W(<<"a">>)), StrVal(W(<<"b">>)), BoolVal(TRUE) }

TextsSort == { W(<<"a", "r", "r", "a", "y", ".", "s", "o", "r", "t", "(", "$", "a", ")">>), W(<<"a", "r", "r", "a", "y", ".", "s", "o", "r", "t", "(", "$", "a", ",", " ", "f", "a", "l", "s", "e", ")">>) }

ContextsSort == { W(<<"a">>) :> ArrVal(a) : a \in UNION {[1..n -> ElemsSort] : n \in 0..MaxElems} }

InitSort == Start(TextsSort, ContextsSort)

NextSort == ExecExpr

SpecSort == InitSort /\ [][NextSort]_vars

\* A member-access chain with an optional part or without, in parentheses
\* and bare, followed by one more part.
ChainsParen == { W(<<"$", "a", "?", ".", "b">>), W(<<"$", "a", ".", "b">>), W(<<"$", "a", "?", ".", "b", "?", ".", "c">>), W(<<"$", "a", "?", "[", "0", "]">>) }

PartsParen == { W(<<".", "c">>), W(<<"?", ".", "c">>), W(<<"[", "0", "]">>), W(<<"?", "[", "0", "]">>) }

TextsParen ==
  UNION {{ W(<<"(">>) \o c \o W(<<")">>) \o q, c \o q } : c \in ChainsParen, q \in PartsParen}

ContextsParen ==
  { W(<<"a">>) :> Null,
    W(<<"a">>) :> ObjVal(W(<<"c">>) :> IntVal(1)),
    W(<<"a">>) :> ObjVal(W(<<"b">>) :> Null),
    W(<<"a">>) :> ObjVal(W(<<"b">>) :> ObjVal(W(<<"c">>) :> IntVal(1))),
    W(<<"a">>) :> ArrVal(<<ArrVal(<<IntVal(7)>>)>>) }

InitParen == Start(TextsParen, ContextsParen)

NextParen == ExecExpr

SpecParen == InitParen /\ [][NextParen]_vars

\* string.substring on strings of up to MaxRunes bytes, with a start and a
\* length from below zero to beyond the end.
MaxRunes == 3

StringsSubstring == { SubSeq(W(<<"a", "b", "c", "d", "e", "f", "g", "h">>), 1, n) : n \in 0..MaxRunes }

TextsSubstring == { W(<<"s", "t", "r", "i", "n", "g", ".", "s", "u", "b", "s", "t", "r", "i", "n", "g", "(", "$", "s", ",", " ", "$", "i", ",", " ", "$", "n", ")">>) }

ContextsSubstring ==
  { W(<<"s">>) :> StrVal(str) @@ W(<<"i">>) :> IntVal(i) @@ W(<<"n">>) :> IntVal(n) :
      str \in StringsSubstring, i \in (0 - 1)..MaxRunes, n \in (0 - 2)..(MaxRunes + 1) }

InitSubstring == Start(TextsSubstring, ContextsSubstring)

NextSubstring == ExecExpr

SpecSubstring == InitSubstring /\ [][NextSubstring]_vars

\* string.join of string.split on strings of up to MaxRunes bytes with and
\* without the delimiter in them.
BytesSplit == W(<<"a", "b", ",">>)

StringsSplit == UNION {[1..n -> {BytesSplit[i] : i \in 1..Len(BytesSplit)}] : n \in 0..MaxRunes}

DelimitersSplit == { W(<<",">>), W(<<"a">>), W(<<"a", "b">>) }

TextsSplit == { W(<<"s", "t", "r", "i", "n", "g", ".", "j", "o", "i", "n", "(", "s", "t", "r", "i", "n", "g", ".", "s", "p", "l", "i", "t", "(", "$", "s", ",", " ", "$", "d", ")", ",", " ", "$", "d", ")">>) }

ContextsSplit ==
  { W(<<"s">>) :> StrVal(str) @@ W(<<"d">>) :> StrVal(d) : str \in StringsSplit, d \in DelimitersSplit }

InitSplit == Start(TextsSplit, ContextsSplit)

NextSplit == ExecExpr

SpecSplit == InitSplit /\ [][NextSplit]_vars

\* Divisions of int64: dividends from zero to the largest int64, with
\* magnitudes of a few bits, around the end of the mantissa of a float64 and
\* near the end of int64, of both signs; divisors zero, small and large.
LowBitsDivide == { <<0, 0>>, <<0, 1>>, <<1, 1>> }

MagnitudesDivide ==
  { <<1>> \o Zeros(k) \o low : k \in {0, MantissaBits - 2, Int64Bits - 3}, low \in LowBitsDivide }
    \cup { Ones(Int64Bits) }

DividendsDivide ==
  { Wide(neg, m) : neg \in BOOLEAN, m \in MagnitudesDivide } \cup { Wide(FALSE, <<>>) }

DivisorsDivide ==
  { Wide(FALSE, <<>>), Wide(FALSE, <<1>>), Wide(TRUE, <<1>>), Wide(FALSE, <<1, 0>>),
    Wide(TRUE, <<1, 1>>), Wide(FALSE, <<1, 1, 1>>),
    Wide(FALSE, <<1>> \o Zeros(MantissaBits - 1) \o <<1>>) }

InitDivide ==
  /\ src = <<>>
  /\ ctx = EmptyContext
  /\ res = None
  /\ plainRes = None
  /\ bc = None
  /\ res2 = None
  /\ signedData = None
  /\ tampered = 0
  /\ readRes = None
  /\ heap = <<>>
  /\ regs = <<>>
  /\ shared = None
  /\ evals = <<>>
  /\ suite = None
  /\ lex = None
  /\ division \in {Division(a, b) : a \in DividendsDivide, b \in DivisorsDivide}

NextDivide == Divide

SpecDivide == InitDivide /\ [][NextDivide]_vars

(***************************************************************************)
(* Claims                                                                   *)
(***************************************************************************)
\* The outcome of an evaluation as a caller observes it: the value, or the
\* error's kind and message; positions are left out.
Outcome(run) ==
  [val |-> run.val, kind |-> run.err.kind, msg |-> run.err.msg, arg |-> run.err.arg]

\* C1: whenever exec on the text parsed it, exec on the bytecode compile wrote
\* for the same text parses it too and evaluates to the same value, or to an
\* error of the same kind and message.
C1_RoundTrip ==
  (res # None /\ res.stage = "Eval" /\ res2 # None) =>
    (res2.stage = "Eval" /\ Outcome(res2) = Outcome(res))

\* C4: whenever ParseExpression returned an AST, the token that follows the
\* parsed expression is the end of the input.
C4_SingleExpression ==
  (res # None /\ res.stage = "Eval") => res.cur.type = TokenEof

\* The expressions an expression evaluates as its operands, each with the
\* index its path is extended by.
Children(e) ==
  CASE e.n = "Unary" -> {[ix |-> 1, node |-> e.expr]}
    [] e.n = "Binary" -> {[ix |-> 1, node |-> e.left], [ix |-> 2, node |-> e.right]}
    [] e.n = "MemberAccess" ->
         {[ix |-> 0, node |-> e.target]}
           \cup {[ix |-> k, node |-> e.parts[k].expr] :
                   k \in {j \in 1..Len(e.parts) : e.parts[j].isIndex}}
    [] e.n = "FunctionCall" -> {[ix |-> i, node |-> e.args[i]] : i \in 1..Len(e.args)}
    [] e.n = "ArrayLiteral" -> {[ix |-> i, node |-> e.elements[i]] : i \in 1..Len(e.elements)}
    [] e.n = "ObjectLiteral" ->
         {[ix |-> FieldIndex(e.fields, k), node |-> e.fields[k]] : k \in DOMAIN e.fields}
    [] OTHER -> {}

\* The nodes of an expression, each with its path.
RECURSIVE SubNodes(_, _)
SubNodes(e, path) ==
  {[path |-> path, node |-> e]}
    \cup UNION {SubNodes(child.node, Append(path, child.ix)) : child \in Children(e)}

IsPrefix(p, q) == Len(p) <= Len(q) /\ SubSeq(q, 1, Len(p)) = p

\* The place of a path in a trace, 0 when Eval was not invoked on the node.
TraceIndex(trace, path) ==
  IF \E i \in 1..Len(trace) : trace[i] = path
    THEN CHOOSE i \in 1..Len(trace) : trace[i] = path
    ELSE 0

\* C2: in every evaluated AND or OR the left operand is the first node
\* evaluated; when it yields false under AND, or true under OR, Eval is
\* invoked on no node of the right operand and the node's result is that
\* boolean, without error.
C2_ShortCircuit ==
  (res # None /\ res.stage = "Eval") =>
    \A s \in SubNodes(res.ast, <<>>) :
      (s.node.n = "Binary" /\ s.node.op \in {TokenAnd, TokenOr}
         /\ TraceIndex(res.trace, s.path) # 0) =>
        LET stop == s.node.op = TokenOr
            at == TraceIndex(res.trace, s.path)
            left == Eval(s.node.left, ctx, <<>>, Append(s.path, 1))
            whole == Eval(s.node, ctx, <<>>, s.path)
        IN /\ at < Len(res.trace)
           /\ res.trace[at + 1] = Append(s.path, 1)
           /\ (left.err = NoErr /\ left.val = BoolVal(stop)) =>
                /\ \A i \in 1..Len(res.trace) : ~IsPrefix(Append(s.path, 2), res.trace[i])
                /\ whole.err = NoErr
                /\ whole.val = BoolVal(stop)

\* An AND whose left operand is false and whose right operand, a missing
\* field, would raise an error, evaluated to false.
C2_Witness ==
  /\ res # None
  /\ res.stage = "Eval"
  /\ res.ast.n = "Binary"
  /\ res.ast.op = TokenAnd
  /\ res.ast.left.n = "Literal"
  /\ res.ast.left.value = BoolVal(FALSE)
  /\ Eval(res.ast.right, ctx, <<>>, <<2>>).err # NoErr
  /\ res.err = NoErr
  /\ res.val = BoolVal(FALSE)

\* The value of the index expression of a part in the context.
IndexValue(part) == Eval(part.expr, ctx, <<>>, <<>>).val

\* The key a part selects in an object.
PartKey(part) ==
  IF ~part.isIndex THEN part.key
  ELSE IF IndexValue(part).t = "Str" THEN IndexValue(part).s
  ELSE Format(IndexValue(part))

\* TRUE when a part selects an element an array has.
InBounds(part, arr) ==
  /\ IndexValue(part).t = "Int"
  /\ 0 <= IndexValue(part).i
  /\ IndexValue(part).i < Len(arr)

\* Walking the parts k.. from val: the first part that is applied to null, or
\* that selects a key the object lacks or an index outside the array; 0 when
\* the walk ends, or meets something else, before any such part.
RECURSIVE FirstMissing(_, _, _)
FirstMissing(val, parts, k) ==
  IF k > Len(parts) THEN 0
  ELSE IF val.t = "Null" THEN k
  ELSE IF val.t = "Obj"
    THEN IF PartKey(parts[k]) \in DOMAIN val.o
           THEN FirstMissing(val.o[PartKey(parts[k])], parts, k + 1)
           ELSE k
  ELSE IF val.t = "Arr" /\ parts[k].isIndex /\ IndexValue(parts[k]).t = "Int"
    THEN IF InBounds(parts[k], val.a)
           THEN FirstMissing(val.a[IndexValue(parts[k]).i + 1], parts, k + 1)
           ELSE k
  ELSE 0

\* Where a part stands in the text: the name of a dot part, the index
\* expression of an index part.
PartPos(part) ==
  IF part.isIndex THEN Pos(part.expr) ELSE [line |-> part.line, col |-> part.col]

\* TRUE of a run that evaluated a member access all of whose parts are
\* optional and whose target evaluates to a value.
OptionalChain(run) ==
  /\ run # None
  /\ run.stage = "Eval"
  /\ run.ast.n = "MemberAccess"
  /\ \A k \in 1..Len(run.ast.parts) : run.ast.parts[k].optional
  /\ Eval(run.ast.target, ctx, <<>>, <<>>).err = NoErr

\* C3: an all-optional chain in which a prefix is null, or a part selects a
\* missing key or index, evaluates to Null without error; the chain written
\* without '?' yields no value and raises a reference or type error whose
\* position is that of the first such part.
C3_NullPropagation ==
  (/\ OptionalChain(res)
   /\ plainRes # None
   /\ plainRes.stage = "Eval"
   /\ plainRes.ast.n = "MemberAccess"
   /\ Len(plainRes.ast.parts) = Len(res.ast.parts)
   /\ FirstMissing(Eval(res.ast.target, ctx, <<>>, <<>>).val, res.ast.parts, 1) > 0) =>
    LET k == FirstMissing(Eval(res.ast.target, ctx, <<>>, <<>>).val, res.ast.parts, 1)
    IN /\ res.err = NoErr
       /\ res.val = Null
       /\ plainRes.val = Null
       /\ plainRes.err.kind \in {"ReferenceError", "TypeError"}
       /\ [line |-> plainRes.err.line, col |-> plainRes.err.col]
            = PartPos(plainRes.ast.parts[k])

\* C5: $[e] yields the field of the context that the value of e names, and
\* raises ReferenceError "field 'k' not found" when the context has no such
\* field; it never yields the context itself.
C5_Subscript ==
  (res # None /\ res.stage = "Eval" /\ res.ast.n = "Context" /\ res.ast.subscript.n # "nil") =>
    LET e == Eval(res.ast.subscript, ctx, <<>>, <<>>)
        k == IF e.val.t = "Str" THEN e.val.s ELSE Format(e.val)
    IN e.err = NoErr =>
         /\ res.val # ObjVal(ctx)
         /\ IF k \in DOMAIN ctx
              THEN res.err = NoErr /\ res.val = ctx[k]
              ELSE /\ res.err.kind = "ReferenceError"
                   /\ res.err.msg = "field '%s' not found"
                   /\ res.err.arg = k

\* Walking the parts k.. from val: the first part applied to a value that is
\* not null and is not an object, for a dot part, or neither an object nor
\* an array, for an index part; 0 when the walk ends before any such part.
RECURSIVE FirstNonContainer(_, _, _)
FirstNonContainer(val, parts, k) ==
  IF k > Len(parts) \/ val.t = "Null" THEN 0
  ELSE IF val.t = "Obj"
    THEN IF PartKey(parts[k]) \in DOMAIN val.o
           THEN FirstNonContainer(val.o[PartKey(parts[k])], parts, k + 1)
           ELSE 0
  ELSE IF val.t = "Arr" /\ parts[k].isIndex
    THEN IF InBounds(parts[k], val.a)
           THEN FirstNonContainer(val.a[IndexValue(parts[k]).i + 1], parts, k + 1)
           ELSE 0
  ELSE k

\* C8: an all-optional chain in which a ?. part meets a value that is not an
\* object, or a ?[ part a value that is neither an object nor an array,
\* evaluates to Null without error.
C8_OptionalNonObject ==
  (/\ OptionalChain(res)
   /\ FirstNonContainer(Eval(res.ast.target, ctx, <<>>, <<>>).val, res.ast.parts, 1) > 0) =>
    (res.err = NoErr /\ res.val = Null)

\* TRUE when e is a literal or a context reference that evaluates to a value
\* of type t.
Yields(e, t) ==
  /\ e.n \in {"Literal", "Context"}
  /\ Eval(e, ctx, <<>>, <<>>).err = NoErr
  /\ Eval(e, ctx, <<>>, <<>>).val.t = t

\* TRUE when e is the call type.name(a) with a yielding a value of type t.
Converts(e, name, t) ==
  /\ e.n = "FunctionCall"
  /\ e.namespace = <<W(<<"t", "y", "p", "e">>), name>>
  /\ Len(e.args) = 1
  /\ Yields(e.args[1], t)

\* C6: x + y and y + x with x an Int and y a Float raise SemanticError and
\* yield no number; type.float(x) + y evaluates without error to a Float and
\* x + type.int(y) evaluates without error to an Int.
C6_Disjoint ==
  (res # None /\ res.stage = "Eval" /\ res.ast.n = "Binary" /\ res.ast.op = TokenPlus) =>
    /\ ( \/ Yields(res.ast.left, "Int") /\ Yields(res.ast.right, "Float")
         \/ Yields(res.ast.left, "Float") /\ Yields(res.ast.right, "Int") ) =>
         (res.err.kind = "SemanticError" /\ res.val.t \notin {"Int", "Float"})
    /\ (Converts(res.ast.left, W(<<"f", "l", "o", "a", "t">>), "Int")
          /\ Yields(res.ast.right, "Float")) =>
         (res.err = NoErr /\ res.val.t = "Float")
    /\ (Yields(res.ast.left, "Int")
          /\ Converts(res.ast.right, W(<<"i", "n", "t">>), "Float")) =>
         (res.err = NoErr /\ res.val.t = "Int")

\* 3 + type.int($f) with the field f holding -2.5 evaluated to the Int 1.
C6_Witness ==
  /\ res # None
  /\ res.stage = "Eval"
  /\ res.ast.n = "Binary"
  /\ res.ast.op = TokenPlus
  /\ Yields(res.ast.left, "Int")
  /\ Converts(res.ast.right, W(<<"i", "n", "t">>), "Float")
  /\ Eval(res.ast.right.args[1], ctx, <<>>, <<>>).val = FloatVal(0 - 25)
  /\ Eval(res.ast.left, ctx, <<>>, <<>>).val = IntVal(3)
  /\ res.val = IntVal(1)

\* TRUE when the lexer reads the text to its end without error.
LexesWithoutError(text) ==
  \A i \in 1..Len(LexerTokens(NewLexer(text), 0)) :
    LexerTokens(NewLexer(text), 0)[i].err = NoErr

\* The first place of the token-stream region of the signed file.
TokenRegionStart == Len(HeaderMagic) + 4 + 1

\* What reading the signed file under the signer's public key must give: a
\* reader and no error when no byte was changed, and no reader and an
\* "invalid signature:" error when one byte of the token stream or of the
\* signature was changed.
ReadAsSigned ==
  (readRes # None /\ readRes.pub = signedData.priv) =>
    /\ tampered = 0 => (readRes.err = NoErr /\ readRes.reader # Nil)
    /\ tampered >= TokenRegionStart =>
         /\ readRes.reader = Nil
         /\ readRes.err.msg = "invalid signature: %v"

C9_Deterministic ==
  [][(res # None /\ res.stage = "Eval" /\ res'.stage = "Eval" /\ res'.ast = res.ast) =>
       (res'.val = res.val /\ res'.err = res.err)]_vars

\* C10: no operation of an evaluation changes a slice or map that exists:
\* the context, everything reachable from it and every value returned
\* earlier stay element for element what they were.
C10_ReadOnly ==
  [][\A a \in 1..Len(heap) : heap'[a] = heap[a]]_vars

\* array.sort returned the sorted elements of the context's slice a in a
\* slice of its own, and the context's slice is in the order it had.
C10_Witness ==
  /\ heap # <<>>
  /\ heap[2] = Slice(<<IntVal(3), IntVal(1), IntVal(2)>>)
  /\ \E i \in 1..Len(regs) :
       /\ regs[i].t = "Ref"
       /\ regs[i].a > 6
       /\ heap[regs[i].a] = Slice(<<IntVal(1), IntVal(2), IntVal(3)>>)

\* C11: while evaluations of one AST run side by side against contexts of
\* their own, the AST and the Environment stay what the parser and
\* NewEnvironment made them, and every evaluation that has returned has the
\* value and the error that Eval of the AST on its context gives alone.
C11_Shareable ==
  /\ shared.ast = Parsed(src)
  /\ shared.env = Libraries
  /\ \A i \in 1..Len(evals) :
       evals[i].done =>
         /\ evals[i].val = Eval(Parsed(src), evals[i].ctx, <<>>, <<>>).val
         /\ evals[i].err = Eval(Parsed(src), evals[i].ctx, <<>>, <<>>).err

\* Two evaluations of $a + $b have both returned, one the sum of its
\* integers and one the error of its booleans, after each had taken a step
\* while the other was in the middle of its own.
C11_Witness ==
  /\ Len(evals) >= 2
  /\ shared.ast.n = "Binary"
  /\ shared.ast.op = TokenPlus
  /\ \A i \in 1..Len(evals) : evals[i].done
  /\ \E i, j \in 1..Len(evals) :
       /\ evals[i].err = NoErr
       /\ evals[i].val = IntVal(3)
       /\ evals[j].err.kind = "SemanticError"

\* C12: every error of lexing, parsing or evaluating a text has a kind, a
\* message and a position on a line and at a column of the text, counted from
\* 1 (the end of the text counts as a place); a call of a name its library
\* does not define is a FunctionCallError at the position of the call.
C12_Positioned ==
  (res # None /\ res.err # NoErr) =>
    /\ res.err.kind # "nil"
    /\ res.err.msg # ""
    /\ res.err.line = 1
    /\ res.err.col \in 1..(Len(src) + 1)
    /\ (res.err.kind = "FunctionCallError" =>
          /\ res.ast.n = "FunctionCall"
          /\ res.err.line = res.ast.line
          /\ res.err.col = res.ast.col)

\* The messages of the errors the libraries raise for a wrong number of
\* arguments.
ArityMessages ==
  { "array.contains requires 2 arguments", "array.extract requires 2 or 3 arguments",
    "array.filter requires between 1 and 3 arguments", "array.find requires 3 or 4 arguments",
    "array.first requires 1 or 2 arguments", "array.flatten requires 1 argument",
    "array.last requires 1 or 2 arguments", "array.sort requires 1 or 2 arguments",
    "cond.coalesce requires at least 1 argument", "cond.ifExpr requires 3 arguments",
    "cond.isFieldPresent requires 2 arguments", "type.float requires 1 argument",
    "type.floatArray requires 1 argument", "type.int requires 1 argument",
    "type.intArray requires 1 argument", "type.isArray requires 1 argument",
    "type.isBoolean requires 1 argument", "type.isNull requires 1 argument",
    "type.isNumber requires 1 argument", "type.isObject requires 1 argument",
    "type.isString requires 1 argument", "type.string requires 1 argument" }

\* TRUE when the run is a call that a library refused for its number of
\* arguments.
ArityError(run) ==
  /\ run # None
  /\ run.stage = "Eval"
  /\ run.ast.n = "FunctionCall"
  /\ run.err.kind = "ParameterError"
  /\ run.err.msg \in ArityMessages

\* C13: the ParameterError of a call with a wrong number of arguments stands
\* at the opening parenthesis of the call when the call has no argument, and
\* at its last argument when it has some.
C13_ArityPosition ==
  ArityError(res) =>
    [line |-> res.err.line, col |-> res.err.col] =
      IF Len(res.ast.args) = 0
        THEN [line |-> res.ast.parenLine, col |-> res.ast.parenCol]
        ELSE Pos(res.ast.args[Len(res.ast.args)])

\* The token types ParseExpression builds a Binary node for, by the grammar.
BinaryOperators ==
  { TokenPlus, TokenMinus, TokenMultiply, TokenDivide, TokenLt, TokenGt, TokenLte, TokenGte,
    TokenEq, TokenNeq, TokenAnd, TokenOr }

\* C14: the operator of every Binary node of a parsed AST is one of the
\* twelve binary operators, and evaluating a parsed AST never raises
\* UnknownOperatorError.
C14_KnownOperators ==
  (res # None /\ res.stage = "Eval") =>
    /\ \A s \in SubNodes(res.ast, <<>>) :
         s.node.n = "Binary" => s.node.op \in BinaryOperators
    /\ res.err.kind # "UnknownOperatorError"

\* TRUE when a numeric literal does not fit its 64-bit type: int64 for
\* digits alone, float64 when it holds '.', 'e' or 'E'.
OutOfRange(lit) ==
  IF IndexOfAny(lit, {Ord["."], Ord["e"], Ord["E"]}) # 0
    THEN ~ParseFloat(lit).ok
    ELSE ~ParseInt(lit).ok

\* The numeric literals of a text that do not fit their type.
OverflowingLiterals(text) ==
  {n.tok.lit : n \in {LexerTokens(NewLexer(text), 0)[i] :
                        i \in 1..Len(LexerTokens(NewLexer(text), 0))}
             \cap {n \in {LexerTokens(NewLexer(text), 0)[i] :
                            i \in 1..Len(LexerTokens(NewLexer(text), 0))} :
                     n.err = NoErr /\ n.tok.type = TokenNumber /\ OutOfRange(n.tok.lit)}}

\* C15: a text with a numeric literal outside the range of its 64-bit type
\* is rejected with a lexical error, and is never parsed into an AST.
C15_LiteralRange ==
  (res # None /\ OverflowingLiterals(src) # {}) =>
    /\ res.stage # "Eval"
    /\ res.err.kind = "LexicalError"

\* The cases of a suite that are to be executed: not marked skip, and
\* focused when some case of the suite is.
ToExecute(s) ==
  {k \in 1..Len(s.cases) :
     ~s.cases[k].skip /\ ((~\E j \in 1..Len(s.cases) : s.cases[j].focus) \/ s.cases[k].focus)}

\* The places of the results recorded for a case.
ResultsOf(s, k) == {i \in 1..Len(s.results) : s.results[i].testId = k}

\* C16: when RunTests with failFast off has left its loop, the cases it ran
\* the lexer, the parser and Eval on are the cases to execute; every other
\* case has one result, of status SKIPPED, and Skipped counts these cases;
\* and Passed + Failed + Skipped is the number of cases.
C16_FocusSkip ==
  (suite # None /\ ~suite.failFast /\ Done(suite)) =>
    /\ {suite.ran[i] : i \in 1..Len(suite.ran)} = ToExecute(suite)
    /\ \A k \in (1..Len(suite.cases)) \ ToExecute(suite) :
         /\ Cardinality(ResultsOf(suite, k)) = 1
         /\ \A i \in ResultsOf(suite, k) : suite.results[i].status = "SKIPPED"
    /\ suite.skipped = Len(suite.cases) - Cardinality(ToExecute(suite))
    /\ suite.passed + suite.failed + suite.skipped = Len(suite.cases)

\* RunTests with failFast off has returned from a suite with a focused case
\* marked skip, a focused case that ran and a case skipped for want of focus.
C16_Witness ==
  /\ suite # None
  /\ ~suite.failFast
  /\ Done(suite)
  /\ \E k \in 1..Len(suite.cases) : suite.cases[k].focus /\ suite.cases[k].skip
  /\ \E k \in ToExecute(suite) : suite.cases[k].focus
  /\ \E k \in 1..Len(suite.cases) : ~suite.cases[k].focus /\ ~suite.cases[k].skip
  /\ suite.skipped = 2
  /\ suite.total = 1

\* C17: under failFast a FAILED result is the last result, the loop has been
\* left with it, no case after its own has been run or recorded, there is at
\* most one such result and Failed is at most 1; with failFast off every
\* case has a result when the loop is left.
C17_FailFast ==
  suite # None =>
    /\ suite.failFast =>
         /\ suite.failed <= 1
         /\ \A i \in 1..Len(suite.results) :
              suite.results[i].status = "FAILED" =>
                /\ i = Len(suite.results)
                /\ Done(suite)
                /\ \A j \in 1..Len(suite.ran) : suite.ran[j] <= suite.results[i].testId
                /\ \A j \in 1..Len(suite.results) :
                     /\ suite.results[j].testId <= suite.results[i].testId
                     /\ (suite.results[j].testId = suite.results[i].testId => j = i)
    /\ (~suite.failFast /\ Done(suite)) =>
         \A k \in 1..Len(suite.cases) : Cardinality(ResultsOf(suite, k)) = 1

\* RunTests under failFast has stopped at a failing case that has a case
\* after it, with a passed case before it.
C17_Witness ==
  /\ suite # None
  /\ suite.failFast
  /\ suite.stopped
  /\ suite.failed = 1
  /\ suite.passed = 1
  /\ Len(suite.results) = 2
  /\ Len(suite.cases) = 3

\* The sub-expressions a node evaluates one after the other: the arguments
\* of a call of a library, the elements of an array literal, the operands of
\* an arithmetic, relational or equality operator.
InOrder(e) ==
  CASE e.n = "FunctionCall" /\ Len(e.namespace) >= 2 /\ GetLibrary(e.namespace[1]) -> e.args
    [] e.n = "ArrayLiteral" -> e.elements
    [] e.n = "Binary" /\ e.op \in BinaryOperators \ {TokenAnd, TokenOr} -> <<e.left, e.right>>
    [] OTHER -> <<>>

\* The first of the expressions whose evaluation under the context fails, or 0.
FirstFailing(es, path) ==
  LET failing == {i \in 1..Len(es) : Eval(es[i], ctx, <<>>, Append(path, i)).err # NoErr}
  IN IF failing = {} THEN 0 ELSE CHOOSE i \in failing : \A j \in failing : i <= j

\* C18: the arguments of a call, the elements of an array literal and the
\* two operands of an arithmetic, relational or equality operator are
\* evaluated in the order of the text; when one fails, none after it is
\* evaluated and the node returns that error, which no library function
\* replaced.
C18_SourceOrder ==
  (res # None /\ res.stage = "Eval") =>
    \A s \in SubNodes(res.ast, <<>>) :
      (InOrder(s.node) # <<>> /\ TraceIndex(res.trace, s.path) # 0) =>
        LET es == InOrder(s.node)
            first == FirstFailing(es, s.path)
            at(i) == TraceIndex(res.trace, Append(s.path, i))
        IN /\ \A i \in 1..Len(es) : (at(i) # 0) <=> (first = 0 \/ i <= first)
           /\ \A i, j \in 1..Len(es) : (i < j /\ at(j) # 0) => at(i) < at(j)
           /\ first # 0 =>
                /\ Eval(s.node, ctx, <<>>, s.path).err
                     = Eval(es[first], ctx, <<>>, Append(s.path, first)).err
                /\ Eval(s.node, ctx, <<>>, s.path).val = Null

\* A call of array.contains was evaluated whose first argument fails and
\* whose second would fail with another error: the result is the error of
\* the first, and the second argument was not evaluated.
C18_Witness ==
  /\ res # None
  /\ res.stage = "Eval"
  /\ res.ast.n = "FunctionCall"
  /\ res.ast.namespace = <<W(<<"a", "r", "r", "a", "y">>), W(<<"c", "o", "n", "t", "a", "i", "n", "s">>)>>
  /\ Len(res.ast.args) = 2
  /\ FirstFailing(res.ast.args, <<>>) = 1
  /\ Eval(res.ast.args[2], ctx, <<>>, <<2>>).err # NoErr
  /\ Eval(res.ast.args[2], ctx, <<>>, <<2>>).err # res.err
  /\ res.err = Eval(res.ast.args[1], ctx, <<>>, <<1>>).err
  /\ TraceIndex(res.trace, <<2>>) = 0

\* TRUE when the run evaluated an arithmetic operator on an integer and a
\* float, in either order.
MixedOperands(run) ==
  /\ run # None
  /\ run.stage = "Eval"
  /\ run.ast.n = "Binary"
  /\ run.ast.op \in {TokenPlus, TokenMinus, TokenMultiply, TokenDivide}
  /\ Eval(run.ast.left, ctx, <<>>, <<1>>).err = NoErr
  /\ Eval(run.ast.right, ctx, <<>>, <<2>>).err = NoErr
  /\ {Eval(run.ast.left, ctx, <<>>, <<1>>).val.t, Eval(run.ast.right, ctx, <<>>, <<2>>).val.t}
       = {"Int", "Float"}

RaisesMixed(run) ==
  /\ run.err.kind = "SemanticError"
  /\ run.err.msg = "Mixed numeric types require explicit conversion"

\* C19, for all operand values: + - * / on an integer and a float raises
\* SemanticError "Mixed numeric types require explicit conversion".
C19_MixedAlways == MixedOperands(res) => RaisesMixed(res)

\* C19, with the zero divisor set apart: + - * on an integer and a float, and
\* / on them when the divisor is not zero, raise SemanticError "Mixed numeric
\* types require explicit conversion"; / by a zero of either type raises
\* DivideByZeroError "division by zero" whatever the type of the dividend.
C19_Mixed ==
  MixedOperands(res) =>
    IF res.ast.op = TokenDivide /\ ToFloat(Eval(res.ast.right, ctx, <<>>, <<2>>).val).f = 0
      THEN res.err.kind = "DivideByZeroError" /\ res.err.msg = "division by zero"
      ELSE RaisesMixed(res)

\* A division of an integer by a float that is not zero raised the error of
\* mixed types.
C19_Witness ==
  /\ MixedOperands(res)
  /\ res.ast.op = TokenDivide
  /\ Eval(res.ast.left, ctx, <<>>, <<1>>).val.t = "Int"
  /\ ToFloat(Eval(res.ast.right, ctx, <<>>, <<2>>).val).f # 0
  /\ RaisesMixed(res)

\* The integer a number coerces to: itself, or the float cut toward zero.
Coerced(val) ==
  IF val.t = "Int" THEN val.i
  ELSE IF val.f >= 0
    THEN CHOOSE k \in 0..val.f : k * FloatScale <= val.f /\ val.f < (k + 1) * FloatScale
    ELSE 0 - (CHOOSE k \in 0..(0 - val.f) :
                k * FloatScale <= 0 - val.f /\ 0 - val.f < (k + 1) * FloatScale)

\* TRUE when the run evaluated one bracket part with a numeric index on an
\* array.
ArrayIndexed(run) ==
  /\ run # None
  /\ run.stage = "Eval"
  /\ run.ast.n = "MemberAccess"
  /\ Len(run.ast.parts) = 1
  /\ run.ast.parts[1].isIndex
  /\ Eval(run.ast.target, ctx, <<>>, <<>>).err = NoErr
  /\ Eval(run.ast.target, ctx, <<>>, <<>>).val.t = "Arr"
  /\ Eval(run.ast.parts[1].expr, ctx, <<>>, <<>>).err = NoErr
  /\ Eval(run.ast.parts[1].expr, ctx, <<>>, <<>>).val.t \in {"Int", "Float"}

LadderLevel(e) ==
  CASE e.n = "Binary" /\ e.op = TokenOr -> 1
    [] e.n = "Binary" /\ e.op = TokenAnd -> 2
    [] e.n = "Binary" /\ e.op \in {TokenEq, TokenNeq} -> 3
    [] e.n = "Binary" /\ e.op \in {TokenLt, TokenGt, TokenLte, TokenGte} -> 4
    [] e.n = "Binary" /\ e.op \in {TokenPlus, TokenMinus} -> 5
    [] e.n = "Binary" /\ e.op \in {TokenMultiply, TokenDivide} -> 6
    [] e.n = "Unary" -> 7
    [] OTHER -> 8

\* The positions of the nodes of an expression of operators and literals,
\* left operand first, then the operator, then the right operand.
RECURSIVE Yield(_)
Yield(e) ==
  CASE e.n = "Binary" -> Yield(e.left) \o <<[line |-> e.line, col |-> e.col]>> \o Yield(e.right)
    [] e.n = "Unary" -> <<[line |-> e.line, col |-> e.col]>> \o Yield(e.expr)
    [] OTHER -> <<[line |-> e.line, col |-> e.col]>>

\* The positions of the tokens of a text, the end of input left out.
TokenPositions(text) ==
  LET toks == SelectSeq(LexerTokens(NewLexer(text), 0), LAMBDA n : n.tok.type # TokenEof)
  IN [i \in 1..Len(toks) |-> [line |-> toks[i].tok.line, col |-> toks[i].tok.col]]

\* C21: the AST of a text without parentheses has the tokens of the text as
\* its nodes in their order; the left operand of a binary operator is of its
\* level or tighter, its right operand is tighter than it, and the operand
\* of a unary operator is a unary operator or tighter.
C21_Ladder ==
  (res # None /\ res.stage = "Eval") =>
    /\ Yield(res.ast) = TokenPositions(src)
    /\ \A s \in SubNodes(res.ast, <<>>) :
         /\ s.node.n = "Binary" =>
              /\ LadderLevel(s.node.left) >= LadderLevel(s.node)
              /\ LadderLevel(s.node.right) > LadderLevel(s.node)
         /\ s.node.n = "Unary" => LadderLevel(s.node.expr) >= 7

\* "1 - NOT - 2 - 1" has been parsed: the second '-' is at the root, the first
\* one is its left operand, and NOT holds the unary '-'.
C21_Witness ==
  /\ res # None
  /\ res.stage = "Eval"
  /\ res.ast.n = "Binary"
  /\ res.ast.op = TokenMinus
  /\ res.ast.left.n = "Binary"
  /\ res.ast.left.op = TokenMinus
  /\ res.ast.left.col < res.ast.col
  /\ res.ast.left.right.n = "Unary"
  /\ res.ast.left.right.op = TokenNot
  /\ res.ast.left.right.expr.n = "Unary"
  /\ res.ast.left.right.expr.op = TokenMinus
  /\ res.ast.right.n = "Literal"

\* The bytes of a token when only identifiers, numbers and strings carry a
\* length and a literal; the end of input is taken as ExportTokens writes it.
OneByteRecord(tok) ==
  IF tok.type \in {TokenIdent, TokenNumber, TokenString}
    THEN <<TokenTypeToByte[tok.type], Len(tok.lit)>> \o tok.lit
  ELSE IF tok.type = TokenEof THEN TokenRecord(tok)
  ELSE <<TokenTypeToByte[tok.type]>>

RECURSIVE OneByteRecords(_)
OneByteRecords(results) ==
  IF results = <<>> THEN <<>>
  ELSE OneByteRecord(results[1].tok) \o OneByteRecords(Tail(results))

\* The types of the tokens of a sequence of NextToken results.
TokenTypes(results) == [i \in 1..Len(results) |-> results[i].tok.type]

\* C22: the file compile writes holds one byte for every operator, however
\* it is spelled, every punctuation token, true, false and null, and a type
\* byte, a length byte and the literal for every identifier, number and
\* string; and the reader gives back the tokens the lexer gave the writer.
C22_OneByteFixed ==
  (bc # None /\ bc.err = NoErr) =>
    /\ bc.bytes = OneByteRecords(LexerTokens(NewLexer(src), 0))
    /\ TokenTypes(ReaderTokens(NewByteCodeReader(bc.bytes)))
         = TokenTypes(LexerTokens(NewLexer(src), 0))

\* The offset of the first byte of the token a call returns: the byte the
\* lexer is at once the spaces and the comments in front are passed.
FirstByte(r) == skipWhitespace(r.before).position

\* The line and the column of the byte at a 0-based offset of a text: one
\* more than the newlines in front, and the 1-based offset within the line.
NewlinesBefore(input, off) == {i \in 1..off : input[i] = LF}

LineAt(input, off) == 1 + Cardinality(NewlinesBefore(input, off))

ColumnAt(input, off) ==
  LET lineStart == IF NewlinesBefore(input, off) = {} THEN 0
                   ELSE CHOOSE i \in NewlinesBefore(input, off) :
                          \A j \in NewlinesBefore(input, off) : j <= i
  IN off + 1 - lineStart

AtFirstByte(input, r, line, col) ==
  /\ line = LineAt(input, FirstByte(r))
  /\ col = ColumnAt(input, FirstByte(r))

\* C23: every token other than EOF and every lexical error that NextToken
\* returns carries the line and the 1-based column of the first byte of the
\* token, malformed numbers included.
C23_TokenPositions ==
  lex # None =>
    \A i \in 1..Len(lex.results) :
      LET r == lex.results[i]
      IN r.tok.type # TokenEof =>
           /\ AtFirstByte(lex.input, r, r.tok.line, r.tok.col)
           /\ r.err # NoErr => AtFirstByte(lex.input, r, r.err.line, r.err.col)

\* C29: every call of NextToken returns a token of type ILLEGAL exactly when
\* it returns a LexicalError with it.
C29_IllegalIffError ==
  lex # None =>
    \A i \in 1..Len(lex.results) :
      (lex.results[i].tok.type = TokenIllegal) <=> (lex.results[i].err # NoErr)

\* The calls that returned EOF, and the bytes a call consumed.
EofCalls(results) == {i \in 1..Len(results) : results[i].tok.type = TokenEof}

Consumed(r) == r.l.position - r.before.position

\* C30: on an input of n bytes every call that does not return EOF consumes
\* at least one byte, an EOF is returned within the first n + 1 calls, and
\* every call after a call that returned EOF returns EOF too.
C30_Termination ==
  lex # None =>
    /\ \A i \in 1..Len(lex.results) : i \notin EofCalls(lex.results) => Consumed(lex.results[i]) >= 1
    /\ Len(lex.results) >= Len(lex.input) + 1 =>
         \E i \in EofCalls(lex.results) : i <= Len(lex.input) + 1
    /\ \A i \in EofCalls(lex.results) : \A j \in i..Len(lex.results) : j \in EofCalls(lex.results)

\* TRUE when the run evaluated a call of array.sort on the context's array a.
SortCalled(run) ==
  /\ run # None
  /\ run.stage = "Eval"
  /\ run.ast.n = "FunctionCall"
  /\ run.ast.namespace = <<W(<<"a", "r", "r", "a", "y">>), W(<<"s", "o", "r", "t">>)>>

\* TRUE when the elements are all numbers or all strings.
Homogeneous(arr) ==
  \/ \A i \in 1..Len(arr) : arr[i].t \in {"Int", "Float"}
  \/ \A i \in 1..Len(arr) : arr[i].t = "Str"

\* C24: array.sort returns a value only for arrays that are all numbers or
\* all strings; on every other array it returns an error, and it never
\* aborts the evaluation.
C24_HomogeneousSort ==
  SortCalled(res) =>
    /\ res.err.kind # "panic"
    /\ res.err = NoErr => Homogeneous(ctx[W(<<"a">>)].a)

\* The text from the opening parenthesis a text starts with to the first
\* closing one.
InParentheses(text) ==
  SubSeq(text, 1, CHOOSE k \in 1..Len(text) :
                    text[k] = Ord[")"] /\ \A j \in 1..(k - 1) : text[j] # Ord[")"])

\* TRUE when the run evaluated a text of a chain in parentheses and a part
\* behind them.
ParenthesisedTarget(run) ==
  /\ run # None
  /\ run.stage = "Eval"
  /\ src[1] = Ord["("]
  /\ run.ast.n = "MemberAccess"

\* C26: in (C)p the part p is applied to the value of C: the text evaluates
\* as the member access whose target is the expression C and whose only part
\* is p.
C26_ParenthesisedTarget ==
  ParenthesisedTarget(res) =>
    LET p == res.ast.parts[Len(res.ast.parts)]
        applied == Eval(MemberAccessExpr(Parsed(InParentheses(src)), <<p>>), ctx, <<>>, <<>>)
    IN res.val = applied.val /\ res.err = applied.err

\* TRUE when the run evaluated a call of the function of the string library.
StringCalled(run, functionName) ==
  /\ run # None
  /\ run.stage = "Eval"
  /\ run.ast.n = "FunctionCall"
  /\ run.ast.namespace = <<W(<<"s", "t", "r", "i", "n", "g">>), functionName>>

\* TRUE when every byte of t is a byte of s.
MadeOf(t, s) == \A i \in 1..Len(t) : \E j \in 1..Len(s) : t[i] = s[j]

\* C27: string.substring(s, start, length) returns a string made of
\* characters of s or an error with a position, whatever the start and the
\* length; it never aborts the evaluation.
C27_TotalSubstring ==
  StringCalled(res, W(<<"s", "u", "b", "s", "t", "r", "i", "n", "g">>)) =>
    /\ res.err.kind # "panic"
    /\ res.err = NoErr => res.val.t = "Str" /\ MadeOf(res.val.s, ctx[W(<<"s">>)].s)
    /\ res.err # NoErr => res.err.line >= 1 /\ res.err.col >= 1

\* C28: string.join(string.split(s, d), d) with a delimiter d that is not
\* empty evaluates without error to s.
C28_SplitJoin ==
  (StringCalled(res, W(<<"j", "o", "i", "n">>)) /\ ctx[W(<<"d">>)].s # <<>>) =>
    res.err = NoErr /\ res.val = ctx[W(<<"s">>)]

\* The quotient of two integers cut toward zero.
ExactQuotient(a, b) == Wide(a.neg # b.neg, DivMod(a.bits, b.bits).q)

\* C25: a / b on two int64 with b # 0 is the exact quotient cut toward zero,
\* whatever the size of the operands; with b = 0 it raises DivideByZeroError
\* "division by zero".
C25_IntegerDivision ==
  (division # None /\ division.stage = "Eval") =>
    IF division.b.bits = <<>>
      THEN division.err.kind = "DivideByZeroError" /\ division.err.msg = "division by zero"
      ELSE division.err = NoErr /\ division.val = ExactQuotient(division.a, division.b)

====
